---- MODULE Spec2Model ----
(***************************************************************************)
(* chains-listener: the event pipeline, the chain manager with its         *)
(* adapters, the listener facade and the notifiers' retry loop, as state   *)
(* machines translated from the TypeScript sources.                        *)
(*                                                                         *)
(* Every await of the source is a step boundary: the steps of different    *)
(* handlers interleave freely, the code between two awaits is atomic.      *)
(***************************************************************************)
EXTENDS Integers, Sequences, FiniteSets, TLC

VARIABLES
    \* EventPipeline (events/event-processor.interface.ts)
    filters,        \* Map<string, EventFilter> in insertion order
    enrichers,      \* Map<string, EventEnricher> in insertion order
    processors,     \* Map<string, EventProcessor> in insertion order
    notifiers,      \* Map<string, EventNotifier> in insertion order
    exec,           \* per event: the state of its execute() call
    \* ChainManager blockchainEvent listener, ChainsListener counters
    executeCalls,   \* per event: calls of pipeline.execute
    mgrSignals,     \* per event: signals the manager emitted for it, in order
    stats,          \* ChainsListener.stats
    \* ChainManager (chains/base/chain-manager.ts) and its adapters
    isRunning,          \* ChainManager.isRunning
    healthCheckTimer,   \* ChainManager.healthCheckTimer is set
    adapter,            \* per chain: the fields of its EVMChainAdapter
    startTask,          \* the start() call in flight, and how the last one ended
    stopTask,           \* the stop() call in flight
    drive,              \* per chain: what start() did to its adapter, in order
    reconnectTimers,    \* per chain: pending setTimeout of scheduleReconnection
    rc,                 \* the reconnectChain() calls, each with its steps so far
    stopReturned,       \* stop() has returned and start() was not called since
    starts,             \* number of start() calls so far
    now,                \* Date.now()
    lastBeat,           \* per chain: time of the last heartbeat that succeeded
    sweep,              \* per chain: what the last health sweep found
    \* BaseEventNotifier (a WebhookNotifier or a RedisNotifier)
    retry,              \* the notifier's retry fields and its notify() call
    \* EventPipeline's add... methods
    lastAdd,            \* the last add... call: what it found and what it did
    \* ChainManager.registerAdapter / unregisterAdapter
    adapters,           \* ChainManager.adapters: Map<ChainType, IChainAdapter>
    listeners,          \* per adapter object: listener sets the manager attached
    lastRegister,       \* the last registerAdapter call: what it found and did
    \* One chain adapter on its own
    ad,                 \* the adapter's fields
    lastCall,           \* the last method call or timer callback, and the fields before it
    \* ChainsListener.addWalletAddress / addTokenContract / addEnhancedTarget
    chainTargets,       \* per registered chain: its adapter's monitoringTargets
    lastFacade,         \* the last facade call: what it was given and what it did
    \* IChainAdapter.retry
    wrapper,            \* one call of IChainAdapter.retry
    \* What the EVM and Solana adapters emit
    chainHead,          \* the EVM chain's newest block
    currentBlockNumber, \* EVMChainAdapter.currentBlockNumber
    parsing,            \* logs whose parse awaits getBlockInfo, with their listener
    emitted,            \* the blockchainEvent signals of the two adapters
    sol,                \* the SolanaAdapter object
    lastSol,            \* the Solana call or handler that finished last
    mintSupply,         \* supply of the mint account on the chain
    suiPoll,            \* SuiAdapter's processedEvents and its ticks in flight
    suiEmits,           \* blockchainEvent emissions of the Sui adapter
    btcPoll,            \* the API's list for the Bitcoin target and the polls so far
    btcEmits,           \* blockchainEvent emissions of the Bitcoin adapter
    tronPoll,           \* the Tron contract's events, the clock and the polls so far
    tronEmits,          \* blockchainEvent emissions of the Tron adapter
    enhancedTargets,    \* ConfigManager's Map of enhanced targets
    facadeAdded,        \* ids added through the facade and not removed through it
    lastConfig,         \* the resolver or enhanced-target call that finished last
    ruleCall,           \* the last call of CustomRulesFilter.apply
    contractTarget,     \* one EVM contract target: its event types, its listeners, the logs seen
    contractEmits,      \* blockchainEvent signals for the logs of the contract
    redis,              \* a RedisNotifier and the notify calls in flight
    emitLog,            \* events in the order the adapter emitted blockchainEvent for them
    processedLog,       \* events in the order the manager emitted eventProcessed for them
    reconn,             \* one reconnectChain call on the adapter
    life,               \* the facade's and the manager's isRunning and the start()/stop() calls
    gate                \* a ConfirmationFilter and the last event executed through it

pipeVars == <<filters, enrichers, processors, notifiers, exec,
              executeCalls, mgrSignals, stats>>

mgrVars == <<isRunning, healthCheckTimer, adapter, startTask, stopTask, drive,
             reconnectTimers, rc, stopReturned, starts, now, lastBeat, sweep>>

retryVars == <<retry>>

regVars == <<lastAdd>>

registerVars == <<adapters, listeners, lastRegister>>

adVars == <<ad, lastCall>>

facadeVars == <<chainTargets, lastFacade>>

wrapperVars == <<wrapper>>

eventVars == <<chainHead, currentBlockNumber, parsing, emitted>>

solVars == <<sol, lastSol, mintSupply>>

suiVars == <<suiPoll, suiEmits>>

pollVars == <<btcPoll, btcEmits, tronPoll, tronEmits>>

configVars == <<enhancedTargets, facadeAdded, lastConfig>>

ruleVars == <<ruleCall>>

contractVars == <<contractTarget, contractEmits>>

redisVars == <<redis>>

orderVars == <<emitLog, processedLog>>

reconnVars == <<reconn>>

lifeVars == <<life>>

gateVars == <<gate>>

vars == <<pipeVars, mgrVars, retryVars, regVars, registerVars, adVars, facadeVars,
         wrapperVars,
         eventVars,
         solVars,
         suiVars,
         pollVars,
         configVars,
         ruleVars,
         contractVars,
         redisVars,
         orderVars,
         reconnVars,
         lifeVars,
         gateVars>>

(***************************************************************************)
(* Sequence helpers.                                                       *)
(***************************************************************************)
Range(s) == {s[i] : i \in 1..Len(s)}

\* How many elements of s satisfy Test.
CountIf(s, Test(_)) == Cardinality({i \in 1..Len(s) : Test(s[i])})

(***************************************************************************)
(* Filters.  Ids and priorities are those the filter classes pass to       *)
(* BaseEventFilter's constructor.                                          *)
(***************************************************************************)
FilterPriority(id) ==
    CASE id = "address_filter"             -> 10
      [] id = "contract_filter"            -> 9
      [] id = "amount_filter"              -> 8
      [] id = "target_aware_amount_filter" -> 8
      [] id = "event_type_filter"          -> 7
      [] id = "self_transfer_filter"       -> 6
      [] id = "confirmation_filter"        -> 5

NewFilter(id, enabled) ==
    [id |-> id, priority |-> FilterPriority(id), enabled |-> enabled]

\* Array.prototype.filter((filter) => filter.enabled)
EnabledOf(s) == SelectSeq(s, LAMBDA c : c.enabled)

\* One step of the stable sort by (a, b) => b.priority - a.priority: x, which
\* followed every element of s in the array, goes behind the elements of s
\* whose priority is greater or equal.
InsertByPriority(x, s) ==
    LET k == Cardinality({i \in 1..Len(s) : s[i].priority >= x.priority})
    IN  SubSeq(s, 1, k) \o <<x>> \o SubSeq(s, k + 1, Len(s))

RECURSIVE SortByPriority(_)
SortByPriority(s) ==
    IF s = <<>> THEN <<>>
    ELSE InsertByPriority(s[Len(s)], SortByPriority(SubSeq(s, 1, Len(s) - 1)))

\* The enabled filters in insertion order, the sort left out.
ActiveFiltersUnsorted == EnabledOf(filters)

\* const activeFilters = Array.from(values()).filter(enabled).sort(desc)
ActiveFilters == SortByPriority(EnabledOf(filters))

(***************************************************************************)
(* Notifiers registered by PipelineFactory.addSelectiveNotifiers.          *)
(***************************************************************************)
NewNotifier(id, enabled) == [id |-> id, enabled |-> enabled]

ActiveNotifiers == EnabledOf(notifiers)

(***************************************************************************)
(* Events the adapters emit, and the state of one execute() call.          *)
(***************************************************************************)
Events == {"ev1", "ev2"}

IdleExec ==
    [pc            |-> "idle",
     queue         |-> <<>>,     \* active filters not yet applied
     applied       |-> <<>>,     \* filter ids applied, with their outcome
     enriched      |-> {},       \* enrichers whose result the event carries
     enrichLog     |-> <<>>,     \* enricher ids called, in order, with outcome
     value         |-> <<>>,     \* enrichedEvent: the enrichments it went through
     processLog    |-> <<>>,     \* processor ids called, in order, with outcome
     category      |-> "none",   \* classification of the ProcessedEvent
     confidence    |-> "none",
     pending       |-> {},       \* notifiers whose notify() has not settled
     invoked       |-> <<>>,     \* notifier ids in the order notify() was called
     outcomes      |-> <<>>,     \* [channel, ok] as the notify() calls settled
     notifications |-> <<>>,     \* ProcessedEvent.notifications
     result        |-> "pending"]

FilterOutcome == {"true", "false", "throws"}

(***************************************************************************)
(* EventPipeline.execute, called by the manager's blockchainEvent listener.*)
(***************************************************************************)
\* A verdict that lets a throwing filter pass.
FilterPassesUnlessFalse(outcome) == outcome # "false"

\* applyFilters: the verdict on one filter.apply(event); a falsy result and a
\* throw both end the loop with false.
FilterPasses(outcome) == outcome = "true"

\* adapter.emit("blockchainEvent", e): the listener calls execute(e), which runs
\* up to the first await inside applyFilters (the filters are selected and
\* sorted before it).
BlockchainEvent(e) ==
    /\ exec[e].pc = "idle"
    /\ executeCalls' = [executeCalls EXCEPT ![e] = @ + 1]
    /\ exec' = [exec EXCEPT ![e].pc = "filters", ![e].queue = ActiveFilters]
    /\ emitLog' = Append(emitLog, e)
    /\ UNCHANGED <<mgrVars, retryVars, regVars, registerVars, adVars, facadeVars, filters, enrichers, processors, notifiers,
                   mgrSignals, stats, wrapperVars, eventVars, solVars, suiVars, pollVars, configVars, ruleVars, contractVars, redisVars, processedLog, reconnVars, lifeVars, gateVars>>

\* applyFilters: one iteration of the loop over activeFilters.
ApplyFilter(e) ==
    /\ exec[e].pc = "filters"
    /\ exec[e].queue # <<>>
    /\ \E outcome \in FilterOutcome :
          LET f == Head(exec[e].queue)
              x == [exec[e] EXCEPT
                      !.applied = Append(@, [id |-> f.id, outcome |-> outcome]),
                      !.queue = Tail(@)]
          IN  exec' = [exec EXCEPT ![e] =
                  IF FilterPasses(outcome) THEN x
                  ELSE [x EXCEPT !.pc = "returned", !.result = "none"]]
    /\ UNCHANGED <<mgrVars, retryVars, regVars, registerVars, adVars, facadeVars, filters, enrichers, processors, notifiers,
                   executeCalls, mgrSignals, stats, wrapperVars, eventVars, solVars, suiVars, pollVars, configVars, ruleVars, contractVars, redisVars, orderVars, reconnVars, lifeVars, gateVars>>

\* applyEnrichments: the loop over the enabled enrichers in insertion order,
\* from position i with enrichedEvent = value; ok holds the enrichers whose
\* enrich() resolves.  A throwing enricher leaves enrichedEvent as it was.
RECURSIVE EnrichFrom(_, _, _, _)
EnrichFrom(active, ok, i, value) ==
    IF i > Len(active) THEN value
    ELSE EnrichFrom(active, ok, i + 1,
                    IF active[i] \in ok THEN Append(value, active[i].id) ELSE value)

ApplyEnrichments(e) ==
    /\ exec[e].pc = "filters"
    /\ exec[e].queue = <<>>
    /\ LET active == EnabledOf(enrichers) IN
       \E ok \in SUBSET Range(active) :
          exec' = [exec EXCEPT
              ![e].pc = "process",
              ![e].enriched = {c.id : c \in ok},
              ![e].enrichLog = [i \in 1..Len(active) |->
                                  [id |-> active[i].id, ok |-> active[i] \in ok]],
              ![e].value = EnrichFrom(active, ok, 1, <<>>)]
    /\ UNCHANGED <<mgrVars, retryVars, regVars, registerVars, adVars, facadeVars, filters, enrichers, processors, notifiers,
                   executeCalls, mgrSignals, stats, wrapperVars, eventVars, solVars, suiVars, pollVars, configVars, ruleVars, contractVars, redisVars, orderVars, reconnVars, lifeVars, gateVars>>

\* createDefaultProcessedEvent: classification medium_value, confidence 0.5.
CreateDefaultProcessedEvent == [category |-> "medium_value", confidence |-> "0.5"]

\* A loop over the processors without the break: the last one to return wins.
ProcessorsCalledNoBreak(active, returns) == Len(active)

\* processEvent: how many processors the loop calls; it breaks after the
\* first one whose process() returns.
ProcessorsCalled(active, returns) ==
    IF \E i \in 1..Len(active) : active[i] \in returns
    THEN CHOOSE i \in 1..Len(active) :
            /\ active[i] \in returns
            /\ \A j \in 1..(i - 1) : active[j] \notin returns
    ELSE Len(active)

\* processEvent: the enabled processors in insertion order until one returns
\* (its ProcessedEvent carries the classification of that processor), or else
\* createDefaultProcessedEvent.
ProcessEvent(e) ==
    /\ exec[e].pc = "process"
    /\ LET active == EnabledOf(processors) IN
       \E returns \in SUBSET Range(active) :
          LET n == ProcessorsCalled(active, returns)
              log == [i \in 1..n |->
                        [id |-> active[i].id, ok |-> active[i] \in returns]]
              won == {i \in 1..n : log[i].ok}
              made == IF won = {} THEN CreateDefaultProcessedEvent
                      ELSE [category |-> log[CHOOSE i \in won : \A j \in won : j <= i].id,
                            confidence |-> "set by the processor"]
          IN  exec' = [exec EXCEPT ![e].pc = "notify",
                                   ![e].processLog = log,
                                   ![e].category = made.category,
                                   ![e].confidence = made.confidence]
    /\ UNCHANGED <<mgrVars, retryVars, regVars, registerVars, adVars, facadeVars, filters, enrichers, processors, notifiers,
                   executeCalls, mgrSignals, stats, wrapperVars, eventVars, solVars, suiVars, pollVars, configVars, ruleVars, contractVars, redisVars, orderVars, reconnVars, lifeVars, gateVars>>

\* sendNotifications: activeNotifiers.map(async ...) calls notify() of every
\* enabled notifier before the first of them settles.
SendNotifications(e) ==
    /\ exec[e].pc = "notify"
    /\ exec[e].invoked = <<>>
    /\ exec[e].pending = {}
    /\ ActiveNotifiers # <<>>
    /\ exec' = [exec EXCEPT
                  ![e].invoked = [i \in 1..Len(ActiveNotifiers) |-> ActiveNotifiers[i].id],
                  ![e].pending = {c.id : c \in Range(ActiveNotifiers)}]
    /\ UNCHANGED <<mgrVars, retryVars, regVars, registerVars, adVars, facadeVars, filters, enrichers, processors, notifiers,
                   executeCalls, mgrSignals, stats, wrapperVars, eventVars, solVars, suiVars, pollVars, configVars, ruleVars, contractVars, redisVars, orderVars, reconnVars, lifeVars, gateVars>>

\* An entry that hides the failure.
NotificationEntryAlwaysSuccess(n, ok) ==
    [channel |-> n, success |-> TRUE, error |-> "none", retryCount |-> 0]

\* The entry pushed after notifier.notify(event) resolved (ok) or threw: the
\* catch block adds the error's message; retryCount is the literal 0 in both.
NotificationEntry(n, ok) ==
    [channel |-> n, success |-> ok,
     error |-> IF ok THEN "none" ELSE "message", retryCount |-> 0]

\* One notify() promise settles; which one, and how, is the sink's choice.
NotifySettles(e) ==
    /\ exec[e].pc = "notify"
    /\ \E n \in exec[e].pending, ok \in BOOLEAN :
          exec' = [exec EXCEPT
              ![e].pending = @ \ {n},
              ![e].outcomes = Append(@, [channel |-> n, ok |-> ok]),
              ![e].notifications = Append(@, NotificationEntry(n, ok))]
    /\ UNCHANGED <<mgrVars, retryVars, regVars, registerVars, adVars, facadeVars, filters, enrichers, processors, notifiers,
                   executeCalls, mgrSignals, stats, wrapperVars, eventVars, solVars, suiVars, pollVars, configVars, ruleVars, contractVars, redisVars, orderVars, reconnVars, lifeVars, gateVars>>

\* await Promise.allSettled(notificationPromises); return processedEvent
ExecuteReturns(e) ==
    /\ exec[e].pc = "notify"
    /\ exec[e].pending = {}
    /\ exec[e].invoked # <<>> \/ ActiveNotifiers = <<>>
    /\ exec' = [exec EXCEPT ![e].pc = "returned", ![e].result = "processed"]
    /\ UNCHANGED <<mgrVars, retryVars, regVars, registerVars, adVars, facadeVars, filters, enrichers, processors, notifiers,
                   executeCalls, mgrSignals, stats, wrapperVars, eventVars, solVars, suiVars, pollVars, configVars, ruleVars, contractVars, redisVars, orderVars, reconnVars, lifeVars, gateVars>>

(***************************************************************************)
(* ChainsListener.setupEventListeners: the facade's counters.              *)
(***************************************************************************)
\* A listener that books a processed event as a failure.
OnEventProcessedAsFailure(s) ==
    [s EXCEPT !.totalEvents = @ + 1, !.failedEvents = @ + 1]

OnEventProcessed(s) ==
    [s EXCEPT !.totalEvents = @ + 1, !.processedEvents = @ + 1]

\* A listener that forgets totalEvents.
OnEventProcessingErrorNoTotal(s) == [s EXCEPT !.failedEvents = @ + 1]

OnEventProcessingError(s) ==
    [s EXCEPT !.totalEvents = @ + 1, !.failedEvents = @ + 1]

(***************************************************************************)
(* ChainManager.setupAdapterListeners: the rest of the blockchainEvent     *)
(* listener, after execute() settled.  emit() calls the listeners          *)
(* synchronously inside the try block: the facade's listener counts and    *)
(* re-emits to the facade's own observers, and what one of those throws    *)
(* leaves emit() as an exception, which the catch block answers with       *)
(* eventProcessingError.                                                   *)
(***************************************************************************)
EventProcessedEmitted(e) ==
    /\ exec[e].pc = "returned"
    /\ exec[e].result = "processed"
    /\ exec' = [exec EXCEPT ![e].pc = "handled"]
    /\ \E observerThrows \in BOOLEAN :
          IF observerThrows
          THEN /\ mgrSignals' = [mgrSignals EXCEPT
                      ![e] = @ \o <<"eventProcessed", "eventProcessingError">>]
               /\ stats' = OnEventProcessingError(OnEventProcessed(stats))
          ELSE /\ mgrSignals' = [mgrSignals EXCEPT ![e] = Append(@, "eventProcessed")]
               /\ stats' = OnEventProcessed(stats)
    /\ processedLog' = Append(processedLog, e)
    /\ UNCHANGED <<mgrVars, retryVars, regVars, registerVars, adVars, facadeVars, filters, enrichers, processors, notifiers, executeCalls, wrapperVars, eventVars, solVars, suiVars, pollVars, configVars, ruleVars, contractVars, redisVars, emitLog, reconnVars, lifeVars, gateVars>>

\* execute() returned null: if (processedEvent) is false, nothing is emitted.
EventDropped(e) ==
    /\ exec[e].pc = "returned"
    /\ exec[e].result = "none"
    /\ exec' = [exec EXCEPT ![e].pc = "handled"]
    /\ UNCHANGED <<mgrVars, retryVars, regVars, registerVars, adVars, facadeVars, filters, enrichers, processors, notifiers,
                   executeCalls, mgrSignals, stats, wrapperVars, eventVars, solVars, suiVars, pollVars, configVars, ruleVars, contractVars, redisVars, orderVars, reconnVars, lifeVars, gateVars>>

(***************************************************************************)
(* The pipelines PipelineFactory builds register filters and notifiers only*)
(* (the repository has no enricher and no processor class).                *)
(***************************************************************************)
FilterSetups ==
    { \* createHighValuePipeline: Amount, Address, EventType, Amount again
      <<NewFilter("amount_filter", TRUE), NewFilter("address_filter", TRUE),
        NewFilter("event_type_filter", TRUE)>>,
      \* addDefaultFilters without enhanced targets, one filter switched off
      <<NewFilter("address_filter", TRUE), NewFilter("amount_filter", FALSE),
        NewFilter("self_transfer_filter", TRUE),
        NewFilter("confirmation_filter", TRUE)>>,
      \* a custom pipeline with both amount filters (equal priority 8)
      <<NewFilter("confirmation_filter", TRUE),
        NewFilter("target_aware_amount_filter", TRUE),
        NewFilter("amount_filter", TRUE)>>,
      <<>> }

\* Custom pipelines (options.customPipeline) with enrichers and processors.
EnricherSetups ==
    { <<[id |-> "price_enricher", enabled |-> TRUE],
        [id |-> "label_enricher", enabled |-> TRUE]>>,
      <<[id |-> "price_enricher", enabled |-> FALSE],
        [id |-> "label_enricher", enabled |-> TRUE]>>,
      <<>> }

ProcessorSetups ==
    { <<[id |-> "whale_processor", enabled |-> TRUE],
        [id |-> "default_processor", enabled |-> TRUE]>>,
      <<[id |-> "whale_processor", enabled |-> FALSE],
        [id |-> "default_processor", enabled |-> TRUE]>>,
      <<>> }

NotifierSetups ==
    { <<NewNotifier("webhook_notifier", TRUE), NewNotifier("redis_notifier", TRUE)>>,
      <<NewNotifier("webhook_notifier", FALSE), NewNotifier("redis_notifier", TRUE),
        NewNotifier("logger_notifier", TRUE)>>,
      <<>> }

PipeNext ==
    \E e \in Events :
        \/ BlockchainEvent(e)
        \/ ApplyFilter(e)
        \/ ApplyEnrichments(e)
        \/ ProcessEvent(e)
        \/ SendNotifications(e)
        \/ NotifySettles(e)
        \/ ExecuteReturns(e)
        \/ EventProcessedEmitted(e)
        \/ EventDropped(e)

(***************************************************************************)
(* The adapters the facade registers with the manager.  Both are           *)
(* EVMChainAdapter (EthereumAdapter, BSCAdapter); adapter[c] holds         *)
(*   connected, monitoringActive, provider (a provider object is held),    *)
(*   heartbeatTimer (the field is set) and heartbeats, the number of       *)
(*   setInterval timers of startHeartbeat that are live.                   *)
(***************************************************************************)
Chains == {"ethereum", "bsc"}

NewAdapter ==
    [connected |-> FALSE, monitoringActive |-> FALSE, provider |-> FALSE,
     heartbeatTimer |-> FALSE, heartbeats |-> 0]

\* connect(), up to its first await: this.provider = new ...Provider(...)
ConnectBegins(a) == [a EXCEPT !.provider = TRUE]

\* connect(), after getBlockNumber resolved: connected = true; startHeartbeat()
\* stores a new interval in heartbeatTimer without clearing the one it held.
ConnectCompletes(a) ==
    [a EXCEPT !.connected = TRUE, !.heartbeatTimer = TRUE, !.heartbeats = @ + 1]

\* disconnect(): no await; stopHeartbeat() clears the interval the field holds.
Disconnect(a) ==
    [a EXCEPT !.connected = FALSE, !.monitoringActive = FALSE,
              !.heartbeats = IF a.heartbeatTimer THEN @ - 1 ELSE @,
              !.heartbeatTimer = FALSE, !.provider = FALSE]

\* startMonitoring() throws unless connected with a provider.
CanStartMonitoring(a) == a.connected /\ a.provider

StartMonitoring(a) == [a EXCEPT !.monitoringActive = TRUE]

StopMonitoring(a) == [a EXCEPT !.monitoringActive = FALSE]

\* connect() resumes after `await this.provider.getNetwork()`: the call failed,
\* or this.provider was set to null meanwhile and this.provider.getBlockNumber()
\* throws; both leave connect() through its catch block.
GetNetworkDone(a, rpcOk) == rpcOk /\ a.provider

(***************************************************************************)
(* ChainManager configuration, as the facade constructs it.                *)
(***************************************************************************)
HealthCheckInterval == 30000
EnableAutoReconnect == TRUE
HeartbeatInterval == 30000

MaxStarts == 1
MaxReconnects == 1
MaxTicks == 3

(***************************************************************************)
(* ChainManager.start                                                      *)
(***************************************************************************)
\* start(): isRunning = true, then the map over the adapters calls connect()
\* of each of them, which runs up to its first await.
ManagerStart ==
    /\ ~isRunning
    /\ ~startTask.active
    /\ starts < MaxStarts
    /\ isRunning' = TRUE
    /\ starts' = starts + 1
    /\ stopReturned' = FALSE
    /\ adapter' = [c \in Chains |-> ConnectBegins(adapter[c])]
    /\ startTask' = [active |-> TRUE, result |-> "pending",
                     pc |-> [c \in Chains |-> "getNetwork"]]
    /\ drive' = [c \in Chains |-> <<"connect">>]
    /\ UNCHANGED <<pipeVars, retryVars, regVars, registerVars, adVars, facadeVars, healthCheckTimer, stopTask, reconnectTimers, rc, now,
                   lastBeat, sweep, wrapperVars, eventVars, solVars, suiVars, pollVars, configVars, ruleVars, contractVars, redisVars, orderVars, reconnVars, lifeVars, gateVars>>

\* The catch block of start()'s per-adapter task.
StartCatch(log, step) == log \o <<step, "adapterError">>

\* connect() of start(), resumed after getNetwork.
StartGetNetwork(c) ==
    /\ startTask.active
    /\ startTask.pc[c] = "getNetwork"
    /\ \E rpcOk \in BOOLEAN :
          IF GetNetworkDone(adapter[c], rpcOk)
          THEN /\ startTask' = [startTask EXCEPT !.pc[c] = "getBlockNumber"]
               /\ UNCHANGED drive
          ELSE /\ startTask' = [startTask EXCEPT !.pc[c] = "failed"]
               /\ drive' = [drive EXCEPT ![c] = StartCatch(@, "connectFailed")]
    /\ UNCHANGED <<pipeVars, retryVars, regVars, registerVars, adVars, facadeVars, isRunning, healthCheckTimer, adapter, stopTask,
                   reconnectTimers, rc, stopReturned, starts, now, lastBeat, sweep, wrapperVars, eventVars, solVars, suiVars, pollVars, configVars, ruleVars, contractVars, redisVars, orderVars, reconnVars, lifeVars, gateVars>>

\* connect() of start(), resumed after getBlockNumber; when it resolved,
\* connect() completes and start() calls startMonitoring() at once.
StartGetBlockNumber(c) ==
    /\ startTask.active
    /\ startTask.pc[c] = "getBlockNumber"
    /\ \E rpcOk \in BOOLEAN :
          LET a == ConnectCompletes(adapter[c]) IN
          IF ~rpcOk
          THEN /\ startTask' = [startTask EXCEPT !.pc[c] = "failed"]
               /\ drive' = [drive EXCEPT ![c] = StartCatch(@, "connectFailed")]
               /\ UNCHANGED <<adapter, lastBeat, wrapperVars, eventVars, solVars, suiVars, pollVars, configVars, ruleVars, contractVars, redisVars, orderVars, reconnVars, lifeVars, gateVars>>
          ELSE /\ lastBeat' = [lastBeat EXCEPT ![c] = now]
               /\ IF CanStartMonitoring(a)
                  THEN /\ adapter' = [adapter EXCEPT ![c] = StartMonitoring(a)]
                       /\ startTask' = [startTask EXCEPT !.pc[c] = "ok"]
                       /\ drive' = [drive EXCEPT ![c] =
                             @ \o <<"connected", "startMonitoring", "adapterStarted">>]
                  ELSE /\ adapter' = [adapter EXCEPT ![c] = a]
                       /\ startTask' = [startTask EXCEPT !.pc[c] = "failed"]
                       /\ drive' = [drive EXCEPT ![c] = StartCatch(
                             @ \o <<"connected", "startMonitoring">>,
                             "startMonitoringFailed")]
    /\ UNCHANGED <<pipeVars, retryVars, regVars, registerVars, adVars, facadeVars, isRunning, healthCheckTimer, stopTask, reconnectTimers, rc,
                   stopReturned, starts, now, sweep, wrapperVars, eventVars, solVars, suiVars, pollVars, configVars, ruleVars, contractVars, redisVars, orderVars, reconnVars, lifeVars, gateVars>>

\* Promise.all in the place of allSettled: a rejected task rejects start().
StartOutcomeAll(pcs) ==
    IF \E c \in Chains : pcs[c] = "failed" THEN "raised" ELSE "returned"

\* await Promise.allSettled(connectionPromises): a rejected task does not
\* reject start().
StartOutcome(pcs) == "returned"

\* start() after allSettled: startHealthCheck(); emit("managerStarted").
StartReturns ==
    /\ startTask.active
    /\ \A c \in Chains : startTask.pc[c] \in {"ok", "failed"}
    /\ startTask' = [startTask EXCEPT !.active = FALSE,
                                      !.result = StartOutcome(startTask.pc)]
    /\ healthCheckTimer' = (StartOutcome(startTask.pc) = "returned" \/ healthCheckTimer)
    /\ UNCHANGED <<pipeVars, retryVars, regVars, registerVars, adVars, facadeVars, isRunning, adapter, stopTask, drive, reconnectTimers, rc,
                   stopReturned, starts, now, lastBeat, sweep, wrapperVars, eventVars, solVars, suiVars, pollVars, configVars, ruleVars, contractVars, redisVars, orderVars, reconnVars, lifeVars, gateVars>>

(***************************************************************************)
(* ChainManager.stop                                                       *)
(***************************************************************************)
\* stop(): isRunning = false; stopHealthCheck(); the map over the adapters
\* calls stopMonitoring() of each of them (no await inside it).
ManagerStop ==
    /\ isRunning
    /\ ~stopTask.active
    /\ isRunning' = FALSE
    /\ healthCheckTimer' = FALSE
    /\ adapter' = [c \in Chains |-> StopMonitoring(adapter[c])]
    /\ stopTask' = [active |-> TRUE, pc |-> [c \in Chains |-> "disconnect"]]
    /\ UNCHANGED <<pipeVars, retryVars, regVars, registerVars, adVars, facadeVars, startTask, drive, reconnectTimers, rc, stopReturned, starts,
                   now, lastBeat, sweep, wrapperVars, eventVars, solVars, suiVars, pollVars, configVars, ruleVars, contractVars, redisVars, orderVars, reconnVars, lifeVars, gateVars>>

\* stop(): await adapter.disconnect() of one adapter.
StopDisconnect(c) ==
    /\ stopTask.active
    /\ stopTask.pc[c] = "disconnect"
    /\ adapter' = [adapter EXCEPT ![c] = Disconnect(@)]
    /\ stopTask' = [stopTask EXCEPT !.pc[c] = "done"]
    /\ UNCHANGED <<pipeVars, retryVars, regVars, registerVars, adVars, facadeVars, isRunning, healthCheckTimer, startTask, drive,
                   reconnectTimers, rc, stopReturned, starts, now, lastBeat, sweep, wrapperVars, eventVars, solVars, suiVars, pollVars, configVars, ruleVars, contractVars, redisVars, orderVars, reconnVars, lifeVars, gateVars>>

\* stop() after allSettled: emit("managerStopped") and return.
StopReturns ==
    /\ stopTask.active
    /\ \A c \in Chains : stopTask.pc[c] = "done"
    /\ stopTask' = [stopTask EXCEPT !.active = FALSE]
    /\ stopReturned' = ~isRunning
    /\ UNCHANGED <<pipeVars, retryVars, regVars, registerVars, adVars, facadeVars, isRunning, healthCheckTimer, adapter, startTask, drive,
                   reconnectTimers, rc, starts, now, lastBeat, sweep, wrapperVars, eventVars, solVars, suiVars, pollVars, configVars, ruleVars, contractVars, redisVars, orderVars, reconnVars, lifeVars, gateVars>>

(***************************************************************************)
(* Heartbeat, error listener, scheduleReconnection, reconnectChain         *)
(***************************************************************************)
PendingReconnects ==
    LET n[S \in SUBSET Chains] ==
            IF S = {} THEN 0
            ELSE LET c == CHOOSE x \in S : TRUE IN reconnectTimers[c] + n[S \ {c}]
    IN  n[Chains] + Len(rc)

\* scheduleReconnection(chain): one more one-shot timer of reconnectDelay.
ScheduleReconnection(timers, c) == [timers EXCEPT ![c] = @ + 1]

\* A heartbeat interval of the adapter fires.  Without a provider it does
\* nothing; a tip fetch that rejects emits "error", and the manager's error
\* listener schedules a reconnection when auto-reconnect is on and the manager
\* runs; a tip fetch that never settles emits nothing.
HeartbeatFires(c) ==
    /\ adapter[c].heartbeats > 0
    /\ \E outcome \in {"ok", "fail", "hang"} :
          \/ /\ outcome = "ok"
             /\ lastBeat' = [lastBeat EXCEPT ![c] = IF adapter[c].provider THEN now ELSE @]
             /\ UNCHANGED reconnectTimers
          \/ /\ outcome = "fail"
             /\ adapter[c].provider
             /\ PendingReconnects < MaxReconnects
             /\ reconnectTimers' = IF EnableAutoReconnect /\ isRunning
                                   THEN ScheduleReconnection(reconnectTimers, c)
                                   ELSE reconnectTimers
             /\ UNCHANGED lastBeat
          \/ /\ outcome = "hang"
             /\ UNCHANGED <<lastBeat, reconnectTimers, wrapperVars, eventVars, solVars, suiVars, pollVars, configVars, ruleVars, contractVars, redisVars, orderVars, reconnVars, lifeVars, gateVars>>
    /\ UNCHANGED <<pipeVars, retryVars, regVars, registerVars, adVars, facadeVars, isRunning, healthCheckTimer, adapter, startTask, stopTask,
                   drive, rc, stopReturned, starts, now, sweep, wrapperVars, eventVars, solVars, suiVars, pollVars, configVars, ruleVars, contractVars, redisVars, orderVars, reconnVars, lifeVars, gateVars>>

\* The timer of scheduleReconnection fires: if (this.isRunning) it calls
\* reconnectChain, which runs adapter.disconnect() and starts to sleep.
ReconnectTimerFires(c) ==
    /\ reconnectTimers[c] > 0
    /\ reconnectTimers' = [reconnectTimers EXCEPT ![c] = @ - 1]
    /\ IF isRunning
       THEN /\ adapter' = [adapter EXCEPT ![c] = Disconnect(@)]
            /\ rc' = Append(rc, [chain |-> c, pc |-> "sleep",
                                 log |-> <<"disconnect", "sleep">>])
       ELSE UNCHANGED <<adapter, rc, wrapperVars, eventVars, solVars, suiVars, pollVars, configVars, ruleVars, contractVars, redisVars, orderVars, reconnVars, lifeVars, gateVars>>
    /\ UNCHANGED <<pipeVars, retryVars, regVars, registerVars, adVars, facadeVars, isRunning, healthCheckTimer, startTask, stopTask, drive,
                   stopReturned, starts, now, lastBeat, sweep, wrapperVars, eventVars, solVars, suiVars, pollVars, configVars, ruleVars, contractVars, redisVars, orderVars, reconnVars, lifeVars, gateVars>>

\* reconnectChain, sleep(reconnectDelay) is over: adapter.connect() begins.
ReconnectWakes(i) ==
    /\ rc[i].pc = "sleep"
    /\ adapter' = [adapter EXCEPT ![rc[i].chain] = ConnectBegins(@)]
    /\ rc' = [rc EXCEPT ![i].pc = "getNetwork", ![i].log = Append(@, "connect")]
    /\ UNCHANGED <<pipeVars, retryVars, regVars, registerVars, adVars, facadeVars, isRunning, healthCheckTimer, startTask, stopTask, drive,
                   reconnectTimers, stopReturned, starts, now, lastBeat, sweep, wrapperVars, eventVars, solVars, suiVars, pollVars, configVars, ruleVars, contractVars, redisVars, orderVars, reconnVars, lifeVars, gateVars>>

\* A catch block without the rethrow.
ReconnectCatchSwallows(log, step) == log \o <<step, "reconnectionFailed">>

\* The catch block of reconnectChain emits reconnectionFailed and rethrows; the
\* timer callback of scheduleReconnection catches that and emits
\* autoReconnectFailed.
ReconnectCatch(log, step) ==
    log \o <<step, "reconnectionFailed", "raised", "autoReconnectFailed">>

\* connect() of reconnectChain, resumed after getNetwork.
ReconnectGetNetwork(i) ==
    /\ rc[i].pc = "getNetwork"
    /\ \E rpcOk \in BOOLEAN :
          rc' = IF GetNetworkDone(adapter[rc[i].chain], rpcOk)
                THEN [rc EXCEPT ![i].pc = "getBlockNumber"]
                ELSE [rc EXCEPT ![i].pc = "failed",
                                ![i].log = ReconnectCatch(@, "connectFailed")]
    /\ UNCHANGED <<pipeVars, retryVars, regVars, registerVars, adVars, facadeVars, isRunning, healthCheckTimer, adapter, startTask, stopTask,
                   drive, reconnectTimers, stopReturned, starts, now, lastBeat, sweep, wrapperVars, eventVars, solVars, suiVars, pollVars, configVars, ruleVars, contractVars, redisVars, orderVars, reconnVars, lifeVars, gateVars>>

\* connect() of reconnectChain, resumed after getBlockNumber; when it resolved,
\* connect() completes and reconnectChain calls startMonitoring() at once.
ReconnectGetBlockNumber(i) ==
    /\ rc[i].pc = "getBlockNumber"
    /\ \E rpcOk \in BOOLEAN :
          LET c == rc[i].chain
              a == ConnectCompletes(adapter[c])
          IN
          IF ~rpcOk
          THEN /\ rc' = [rc EXCEPT ![i].pc = "failed",
                                   ![i].log = ReconnectCatch(@, "connectFailed")]
               /\ UNCHANGED <<adapter, lastBeat, wrapperVars, eventVars, solVars, suiVars, pollVars, configVars, ruleVars, contractVars, redisVars, orderVars, reconnVars, lifeVars, gateVars>>
          ELSE /\ lastBeat' = [lastBeat EXCEPT ![c] = now]
               /\ IF CanStartMonitoring(a)
                  THEN /\ adapter' = [adapter EXCEPT ![c] = StartMonitoring(a)]
                       /\ rc' = [rc EXCEPT ![i].pc = "done", ![i].log =
                             @ \o <<"connected", "startMonitoring", "chainReconnected">>]
                  ELSE /\ adapter' = [adapter EXCEPT ![c] = a]
                       /\ rc' = [rc EXCEPT ![i].pc = "failed", ![i].log =
                             ReconnectCatch(@ \o <<"connected", "startMonitoring">>,
                                            "startMonitoringFailed")]
    /\ UNCHANGED <<pipeVars, retryVars, regVars, registerVars, adVars, facadeVars, isRunning, healthCheckTimer, startTask, stopTask, drive,
                   reconnectTimers, stopReturned, starts, now, sweep, wrapperVars, eventVars, solVars, suiVars, pollVars, configVars, ruleVars, contractVars, redisVars, orderVars, reconnVars, lifeVars, gateVars>>

(***************************************************************************)
(* Health sweep                                                            *)
(***************************************************************************)
\* getConnectionStatus().lastHeartbeat of every adapter class is Date.now().
GetConnectionStatus(c) ==
    [connected |-> adapter[c].connected, lastHeartbeat |-> now]

\* performHealthCheck: isStale of one status.
IsStale(status) == now - status.lastHeartbeat > HealthCheckInterval * 2

\* The interval of startHealthCheck fires.  sweep keeps, per chain, whether
\* the adapter was connected with a live heartbeat timer whose last success
\* was more than 2 x healthCheckInterval ago while the manager ran with
\* auto-reconnect, and whether a reconnection was scheduled.
PerformHealthCheck ==
    /\ healthCheckTimer
    /\ LET stale == {c \in Chains : IsStale(GetConnectionStatus(c)) /\ EnableAutoReconnect}
       IN  /\ reconnectTimers' = [c \in Chains |->
                 IF c \in stale THEN ScheduleReconnection(reconnectTimers, c)[c]
                 ELSE reconnectTimers[c]]
           /\ sweep' = [c \in Chains |->
                 [overdue   |-> /\ isRunning /\ EnableAutoReconnect
                                /\ adapter[c].connected
                                /\ adapter[c].heartbeats > 0
                                /\ now - lastBeat[c] > HealthCheckInterval * 2,
                  scheduled |-> c \in stale]]
    /\ UNCHANGED <<pipeVars, retryVars, regVars, registerVars, adVars, facadeVars, isRunning, healthCheckTimer, adapter, startTask, stopTask,
                   drive, rc, stopReturned, starts, now, lastBeat, wrapperVars, eventVars, solVars, suiVars, pollVars, configVars, ruleVars, contractVars, redisVars, orderVars, reconnVars, lifeVars, gateVars>>

\* Time passes: one heartbeat period.
Tick ==
    /\ now < MaxTicks * HeartbeatInterval
    /\ now' = now + HeartbeatInterval
    /\ UNCHANGED <<pipeVars, retryVars, regVars, registerVars, adVars, facadeVars, isRunning, healthCheckTimer, adapter, startTask, stopTask,
                   drive, reconnectTimers, rc, stopReturned, starts, lastBeat, sweep, wrapperVars, eventVars, solVars, suiVars, pollVars, configVars, ruleVars, contractVars, redisVars, orderVars, reconnVars, lifeVars, gateVars>>

(***************************************************************************)
(* Notifiers: BaseEventNotifier.retryOperation under WebhookNotifier and   *)
(* RedisNotifier.  retry holds the notifier's fields and its notify()      *)
(* call: budget and baseDelay are retryAttempts and retryDelay as the call *)
(* found them, reconfigured tells that updateConfig ran during the call.   *)
(***************************************************************************)
DefaultRetryAttempts == 3
DefaultRetryDelay == 1000

MaxRetryAttempts == 3

\* The budget of a notifier the factory builds with new WebhookNotifier() or
\* new RedisNotifier(): no customConfig, so the fallback of the constructor.
FactoryRetryAttempts(id) == DefaultRetryAttempts

\* What a caller may pass for retryAttempts / maxRetries and for retryDelay.
RetryAttemptsInputs == 0..MaxRetryAttempts

RetryDelayInputs == {0, 250, DefaultRetryDelay}

\* An optional field of a Partial<...Config>: <<>> is undefined, <<v>> is v.
Optional(S) == {<<>>} \cup {<<v>> : v \in S}

\* customConfig?.field || fallback: undefined and 0 both give the fallback.
OrDefault(v, fallback) == IF v = <<>> \/ v[1] = 0 THEN fallback ELSE v[1]

\* Math.pow(base, exponent) for a natural exponent.
RECURSIVE Pow(_, _)
Pow(base, exponent) ==
    IF exponent = 0 THEN 1 ELSE base * Pow(base, exponent - 1)

\* const delay = this.retryDelay * Math.pow(2, attempt)
RetryDelayFor(retryDelay, attempt) == retryDelay * Pow(2, attempt)

\* A loop that runs once more than the budget.
RetryLoopContinuesInclusive(attempt, retryAttempts) == attempt <= retryAttempts

\* for (let attempt = 0; attempt < this.retryAttempts; attempt++)
RetryLoopContinues(attempt, retryAttempts) == attempt < retryAttempts

NoCall ==
    [pc |-> "idle", attempt |-> 0, log |-> <<>>, delays |-> <<>>,
     result |-> "none", budget |-> 0, baseDelay |-> 0, connectFailed |-> FALSE,
     reconfigured |-> FALSE]

\* new BaseEventNotifier(...): the field initialisers.
BaseEventNotifier(kind) ==
    [kind |-> kind, enabled |-> TRUE, retryAttempts |-> DefaultRetryAttempts,
     retryDelay |-> DefaultRetryDelay, isConnected |-> FALSE, call |-> NoCall]

\* The loop condition of retryOperation at the given attempt: the operation
\* is called, or the loop is left and the error after it is thrown.
RetryIteration(n, attempt) ==
    IF RetryLoopContinues(attempt, n.retryAttempts)
    THEN [n EXCEPT !.call.pc = "operation", !.call.attempt = attempt]
    ELSE [n EXCEPT !.call.pc = "done", !.call.attempt = attempt,
                   !.call.result = "raised"]

\* new WebhookNotifier(customConfig): without a url the notifier is disabled.
NewWebhookNotifier ==
    /\ retry.call.pc \in {"idle", "done"}
    /\ \E cfgAttempts \in Optional(RetryAttemptsInputs),
          cfgDelay \in Optional(RetryDelayInputs),
          hasUrl \in BOOLEAN :
          retry' = [BaseEventNotifier("webhook_notifier") EXCEPT
                      !.retryAttempts = OrDefault(cfgAttempts, DefaultRetryAttempts),
                      !.retryDelay = OrDefault(cfgDelay, DefaultRetryDelay),
                      !.enabled = hasUrl]
    /\ UNCHANGED <<pipeVars, mgrVars, regVars, registerVars, adVars, facadeVars, wrapperVars, eventVars, solVars, suiVars, pollVars, configVars, ruleVars, contractVars, redisVars, orderVars, reconnVars, lifeVars, gateVars>>

\* new RedisNotifier(customConfig)
NewRedisNotifier ==
    /\ retry.call.pc \in {"idle", "done"}
    /\ \E cfgAttempts \in Optional(RetryAttemptsInputs),
          cfgDelay \in Optional(RetryDelayInputs) :
          retry' = [BaseEventNotifier("redis_notifier") EXCEPT
                      !.retryAttempts = OrDefault(cfgAttempts, DefaultRetryAttempts),
                      !.retryDelay = OrDefault(cfgDelay, DefaultRetryDelay)]
    /\ UNCHANGED <<pipeVars, mgrVars, regVars, registerVars, adVars, facadeVars, wrapperVars, eventVars, solVars, suiVars, pollVars, configVars, ruleVars, contractVars, redisVars, orderVars, reconnVars, lifeVars, gateVars>>

\* updateConfig(config) with the url left alone: a field that is not undefined
\* is stored as it is.  It may run while notify() is in flight.
UpdateConfig ==
    /\ \E attempts \in Optional(RetryAttemptsInputs),
          delay \in Optional(RetryDelayInputs) :
          retry' = [retry EXCEPT
              !.retryAttempts = IF attempts = <<>> THEN @ ELSE attempts[1],
              !.retryDelay = IF delay = <<>> THEN @ ELSE delay[1],
              !.call.reconfigured = @ \/ retry.call.pc \notin {"idle", "done"}]
    /\ UNCHANGED <<pipeVars, mgrVars, regVars, registerVars, adVars, facadeVars, wrapperVars, eventVars, solVars, suiVars, pollVars, configVars, ruleVars, contractVars, redisVars, orderVars, reconnVars, lifeVars, gateVars>>

\* notify(event): a disabled notifier returns at once; RedisNotifier awaits
\* ensureConnection() first; then retryOperation runs up to its first await.
Notify ==
    /\ retry.call.pc \in {"idle", "done"}
    /\ LET n == [retry EXCEPT !.call = [NoCall EXCEPT
                    !.budget = retry.retryAttempts,
                    !.baseDelay = retry.retryDelay]]
       IN  retry' =
             IF ~n.enabled
             THEN [n EXCEPT !.call.pc = "done", !.call.result = "resolved"]
             ELSE IF n.kind = "redis_notifier" /\ ~n.isConnected
             THEN [n EXCEPT !.call.pc = "connecting"]
             ELSE RetryIteration(n, 0)
    /\ UNCHANGED <<pipeVars, mgrVars, regVars, registerVars, adVars, facadeVars, wrapperVars, eventVars, solVars, suiVars, pollVars, configVars, ruleVars, contractVars, redisVars, orderVars, reconnVars, lifeVars, gateVars>>

\* RedisNotifier.connect() settles: connected, and retryOperation begins, or
\* notify() throws "Failed to connect to Redis" without any attempt.
EnsureConnectionSettles ==
    /\ retry.call.pc = "connecting"
    /\ \E ok \in BOOLEAN :
          retry' =
             IF ok THEN RetryIteration([retry EXCEPT !.isConnected = TRUE], 0)
             ELSE [retry EXCEPT !.isConnected = FALSE, !.call.pc = "done",
                                !.call.result = "raised",
                                !.call.connectFailed = TRUE]
    /\ UNCHANGED <<pipeVars, mgrVars, regVars, registerVars, adVars, facadeVars, wrapperVars, eventVars, solVars, suiVars, pollVars, configVars, ruleVars, contractVars, redisVars, orderVars, reconnVars, lifeVars, gateVars>>

\* await operation() settles: its value is returned, or the catch block
\* sleeps when attempt < retryAttempts - 1 and else goes on to attempt++.
OperationSettles ==
    /\ retry.call.pc = "operation"
    /\ \E ok \in BOOLEAN :
          LET n == [retry EXCEPT !.call.log = Append(@, IF ok THEN "ok" ELSE "fail")]
              attempt == retry.call.attempt
          IN  retry' =
                IF ok
                THEN [n EXCEPT !.call.pc = "done", !.call.result = "resolved"]
                ELSE IF attempt < n.retryAttempts - 1
                THEN [n EXCEPT !.call.pc = "sleep",
                               !.call.delays =
                                   Append(@, RetryDelayFor(n.retryDelay, attempt))]
                ELSE RetryIteration(n, attempt + 1)
    /\ UNCHANGED <<pipeVars, mgrVars, regVars, registerVars, adVars, facadeVars, wrapperVars, eventVars, solVars, suiVars, pollVars, configVars, ruleVars, contractVars, redisVars, orderVars, reconnVars, lifeVars, gateVars>>

\* await this.sleep(delay) is over: attempt++ and the loop condition.
SleepOver ==
    /\ retry.call.pc = "sleep"
    /\ retry' = RetryIteration(retry, retry.call.attempt + 1)
    /\ UNCHANGED <<pipeVars, mgrVars, regVars, registerVars, adVars, facadeVars, wrapperVars, eventVars, solVars, suiVars, pollVars, configVars, ruleVars, contractVars, redisVars, orderVars, reconnVars, lifeVars, gateVars>>

RetryNext ==
    \/ NewWebhookNotifier
    \/ NewRedisNotifier
    \/ UpdateConfig
    \/ Notify
    \/ EnsureConnectionSettles
    \/ OperationSettles
    \/ SleepOver

(***************************************************************************)
(* EventPipeline's registries: addFilter, removeFilter and their siblings.  *)
(* A registry is a Map keyed by id, kept here as the sequence of its values *)
(* in insertion order.                                                      *)
(***************************************************************************)
\* Map.prototype.set(x.id, x): a key that is present keeps its position and
\* gets the new value, a new key goes to the end.
MapSet(m, x) ==
    IF \E i \in 1..Len(m) : m[i].id = x.id
    THEN [i \in 1..Len(m) |-> IF m[i].id = x.id THEN x ELSE m[i]]
    ELSE Append(m, x)

\* Map.prototype.delete(id)
MapDelete(m, id) == SelectSeq(m, LAMBDA c : c.id # id)

\* Map.prototype.get(id), as <<>> or <<value>>.
MapGet(m, id) == SelectSeq(m, LAMBDA c : c.id = id)

NoAdd ==
    [kind |-> "none", id |-> "none", existed |-> FALSE, before |-> <<>>,
     raised |-> FALSE]

\* What an add... call of the pipeline leaves behind: none of them throws.
AddCall(kind, m, x) ==
    [kind |-> kind, id |-> x.id, existed |-> MapGet(m, x.id) # <<>>,
     before |-> MapGet(m, x.id), raised |-> FALSE]

\* Components a caller may add; two instances of one class differ in enabled.
FilterInstances ==
    {NewFilter(id, en) : id \in {"amount_filter", "address_filter"}, en \in BOOLEAN}

EnricherInstances == {[id |-> "custom_enricher", enabled |-> en] : en \in BOOLEAN}

ProcessorInstances == {[id |-> "custom_processor", enabled |-> en] : en \in BOOLEAN}

NotifierInstances ==
    {NewNotifier(id, en) : id \in {"webhook_notifier", "redis_notifier"},
                           en \in BOOLEAN}

AddFilter(f) ==
    /\ filters' = MapSet(filters, f)
    /\ lastAdd' = AddCall("filter", filters, f)
    /\ UNCHANGED <<mgrVars, retryVars, registerVars, adVars, facadeVars, enrichers, processors, notifiers, exec,
                   executeCalls, mgrSignals, stats, wrapperVars, eventVars, solVars, suiVars, pollVars, configVars, ruleVars, contractVars, redisVars, orderVars, reconnVars, lifeVars, gateVars>>

RemoveFilter(id) ==
    /\ filters' = MapDelete(filters, id)
    /\ lastAdd' = NoAdd
    /\ UNCHANGED <<mgrVars, retryVars, registerVars, adVars, facadeVars, enrichers, processors, notifiers, exec,
                   executeCalls, mgrSignals, stats, wrapperVars, eventVars, solVars, suiVars, pollVars, configVars, ruleVars, contractVars, redisVars, orderVars, reconnVars, lifeVars, gateVars>>

AddEnricher(x) ==
    /\ enrichers' = MapSet(enrichers, x)
    /\ lastAdd' = AddCall("enricher", enrichers, x)
    /\ UNCHANGED <<mgrVars, retryVars, registerVars, adVars, facadeVars, filters, processors, notifiers, exec,
                   executeCalls, mgrSignals, stats, wrapperVars, eventVars, solVars, suiVars, pollVars, configVars, ruleVars, contractVars, redisVars, orderVars, reconnVars, lifeVars, gateVars>>

RemoveEnricher(id) ==
    /\ enrichers' = MapDelete(enrichers, id)
    /\ lastAdd' = NoAdd
    /\ UNCHANGED <<mgrVars, retryVars, registerVars, adVars, facadeVars, filters, processors, notifiers, exec,
                   executeCalls, mgrSignals, stats, wrapperVars, eventVars, solVars, suiVars, pollVars, configVars, ruleVars, contractVars, redisVars, orderVars, reconnVars, lifeVars, gateVars>>

AddProcessor(x) ==
    /\ processors' = MapSet(processors, x)
    /\ lastAdd' = AddCall("processor", processors, x)
    /\ UNCHANGED <<mgrVars, retryVars, registerVars, adVars, facadeVars, filters, enrichers, notifiers, exec,
                   executeCalls, mgrSignals, stats, wrapperVars, eventVars, solVars, suiVars, pollVars, configVars, ruleVars, contractVars, redisVars, orderVars, reconnVars, lifeVars, gateVars>>

RemoveProcessor(id) ==
    /\ processors' = MapDelete(processors, id)
    /\ lastAdd' = NoAdd
    /\ UNCHANGED <<mgrVars, retryVars, registerVars, adVars, facadeVars, filters, enrichers, notifiers, exec,
                   executeCalls, mgrSignals, stats, wrapperVars, eventVars, solVars, suiVars, pollVars, configVars, ruleVars, contractVars, redisVars, orderVars, reconnVars, lifeVars, gateVars>>

AddNotifier(x) ==
    /\ notifiers' = MapSet(notifiers, x)
    /\ lastAdd' = AddCall("notifier", notifiers, x)
    /\ UNCHANGED <<mgrVars, retryVars, registerVars, adVars, facadeVars, filters, enrichers, processors, exec,
                   executeCalls, mgrSignals, stats, wrapperVars, eventVars, solVars, suiVars, pollVars, configVars, ruleVars, contractVars, redisVars, orderVars, reconnVars, lifeVars, gateVars>>

RemoveNotifier(id) ==
    /\ notifiers' = MapDelete(notifiers, id)
    /\ lastAdd' = NoAdd
    /\ UNCHANGED <<mgrVars, retryVars, registerVars, adVars, facadeVars, filters, enrichers, processors, exec,
                   executeCalls, mgrSignals, stats, wrapperVars, eventVars, solVars, suiVars, pollVars, configVars, ruleVars, contractVars, redisVars, orderVars, reconnVars, lifeVars, gateVars>>

RegistryNext ==
    \/ \E f \in FilterInstances : AddFilter(f) \/ RemoveFilter(f.id)
    \/ \E x \in EnricherInstances : AddEnricher(x) \/ RemoveEnricher(x.id)
    \/ \E x \in ProcessorInstances : AddProcessor(x) \/ RemoveProcessor(x.id)
    \/ \E x \in NotifierInstances : AddNotifier(x) \/ RemoveNotifier(x.id)

(***************************************************************************)
(* ChainManager.registerAdapter and unregisterAdapter.  adapters is the Map *)
(* as the sequence of its entries [id = chain type, instance] in insertion  *)
(* order; listeners[a] counts the sets of listeners (blockchainEvent,       *)
(* connectionStatus, error) the manager has attached to the object a.       *)
(***************************************************************************)
\* Adapter objects a caller may hold, and the chain type of each.
AdapterObjects == {"eth1", "eth2", "bsc1", "bsc2", "sol1"}

ChainTypeOf(a) ==
    CASE a \in {"eth1", "eth2"} -> "ethereum"
      [] a \in {"bsc1", "bsc2"} -> "bsc"
      [] a = "sol1" -> "solana"

NoRegister ==
    [instance |-> "none", existed |-> FALSE, raised |-> FALSE,
     adaptersBefore |-> <<>>, listenersBefore |-> <<>>]

\* A check by object identity in the place of the chain type.
HasAdapterByObject(m, a) == \E i \in 1..Len(m) : m[i].instance = a

\* if (this.adapters.has(adapter.chainType))
HasAdapter(m, a) == MapGet(m, ChainTypeOf(a)) # <<>>

\* registerAdapter(adapter): throws when the chain type has an adapter, and
\* else stores the adapter and attaches the listeners.
RegisterAdapter(a) ==
    LET has == HasAdapter(adapters, a) IN
    /\ lastRegister' = [instance |-> a, existed |-> has, raised |-> has,
                        adaptersBefore |-> adapters,
                        listenersBefore |-> <<listeners>>]
    /\ IF has
       THEN UNCHANGED <<adapters, listeners, wrapperVars, eventVars, solVars, suiVars, pollVars, configVars, ruleVars, contractVars, redisVars, orderVars, reconnVars, lifeVars, gateVars>>
       ELSE /\ adapters' = MapSet(adapters, [id |-> ChainTypeOf(a), instance |-> a])
            /\ listeners' = [listeners EXCEPT ![a] = @ + 1]
    /\ UNCHANGED <<pipeVars, mgrVars, retryVars, regVars, adVars, facadeVars, wrapperVars, eventVars, solVars, suiVars, pollVars, configVars, ruleVars, contractVars, redisVars, orderVars, reconnVars, lifeVars, gateVars>>

\* unregisterAdapter(chainType): removeAllListeners() and delete, when the
\* chain type has an adapter.
UnregisterAdapter(chainType) ==
    LET found == MapGet(adapters, chainType) IN
    /\ lastRegister' = NoRegister
    /\ IF found = <<>>
       THEN UNCHANGED <<adapters, listeners, wrapperVars, eventVars, solVars, suiVars, pollVars, configVars, ruleVars, contractVars, redisVars, orderVars, reconnVars, lifeVars, gateVars>>
       ELSE /\ listeners' = [listeners EXCEPT ![found[1].instance] = 0]
            /\ adapters' = MapDelete(adapters, chainType)
    /\ UNCHANGED <<pipeVars, mgrVars, retryVars, regVars, adVars, facadeVars, wrapperVars, eventVars, solVars, suiVars, pollVars, configVars, ruleVars, contractVars, redisVars, orderVars, reconnVars, lifeVars, gateVars>>

RegisterNext ==
    \/ \E a \in AdapterObjects : RegisterAdapter(a)
    \/ \E a \in AdapterObjects : UnregisterAdapter(ChainTypeOf(a))

(***************************************************************************)
(* One chain adapter on its own: the lifecycle and target methods of       *)
(* EVMChainAdapter, SolanaAdapter, BitcoinAdapter, the Tron adapter and    *)
(* the two SuiAdapter sources (sui: event subscription timer, sui_polling: *)
(* event polling timer).  ad holds                                          *)
(*   connected, monitoringActive,                                          *)
(*   handle       the provider / connection / client field is non-null,    *)
(*   heartbeatTimer, heartbeats   the field is set, live heartbeat timers, *)
(*   pollTimer, polls             the same for the poll timer,             *)
(*   targets      monitoringTargets, one record per address,               *)
(*   subs         addresses with a per-target listener or subscription,    *)
(*   listening    the chain-wide listener (EVM "block", Solana token logs).*)
(* A method call is one step; a timer callback is a step of its own.       *)
(***************************************************************************)
AdapterKinds == {"evm", "solana", "bitcoin", "tron", "sui", "sui_polling"}

SuiKinds == {"sui", "sui_polling"}

\* An address string by what the validators look at: its prefix, the
\* alphabet of the rest and the length of the rest; id tells two addresses
\* of one shape apart.
AddressShapes ==
    { [prefix |-> "0x", alphabet |-> "hex", len |-> 40],
      [prefix |-> "0x", alphabet |-> "hex", len |-> 64],
      [prefix |-> "", alphabet |-> "base58", len |-> 44],
      [prefix |-> "1", alphabet |-> "base58", len |-> 33],
      [prefix |-> "T", alphabet |-> "base58", len |-> 33],
      [prefix |-> "", alphabet |-> "hex", len |-> 0] }

AddressIds == {"a", "b"}

AddressInputs ==
    { [prefix |-> s.prefix, alphabet |-> s.alphabet, len |-> s.len, id |-> i] :
        s \in AddressShapes, i \in AddressIds }

EventTypeInputs == { <<>>, <<"transfer">> }

TargetInputs ==
    { [address |-> a, eventTypes |-> t] : a \in AddressInputs, t \in EventTypeInputs }

\* validateAddress of each adapter.
ValidateAddress(kind, a) ==
    CASE kind = "evm" ->
            a.prefix \in {"0x", ""} /\ a.alphabet = "hex" /\ a.len = 40
      [] kind \in SuiKinds ->
            a.prefix = "0x" /\ a.alphabet = "hex" /\ a.len = 64
      [] kind = "solana" ->
            a.prefix = "" /\ a.alphabet = "base58" /\ a.len \in 32..44
      [] kind = "bitcoin" ->
            \/ a.prefix \in {"1", "3"} /\ a.alphabet = "base58" /\ a.len \in 25..34
            \/ a.prefix = "bc1" /\ a.alphabet = "bech32" /\ a.len \in 39..59
      [] kind = "tron" ->
            \/ a.prefix = "T" /\ a.alphabet = "base58" /\ a.len = 33
            \/ a.prefix \in {"0x", ""} /\ a.alphabet = "hex" /\ a.len = 40

\* validateMonitoringTarget with the address check left out.
ValidateMonitoringTargetEventTypesOnly(kind, target) ==
    Len(target.eventTypes) = 0

\* IChainAdapter.validateMonitoringTarget throws.
ValidateMonitoringTargetThrows(kind, target) ==
    \/ ~ValidateAddress(kind, target.address)
    \/ Len(target.eventTypes) = 0

HasEventType(target, t) == \E i \in 1..Len(target.eventTypes) : target.eventTypes[i] = t

TargetsSet(ts, target) == {x \in ts : x.address # target.address} \cup {target}

TargetsDelete(ts, address) == {x \in ts : x.address # address}

TargetKeys(ts) == {x.address : x \in ts}

NewChainAdapter(kind) ==
    [kind |-> kind, connected |-> FALSE, monitoringActive |-> FALSE,
     handle |-> FALSE, heartbeatTimer |-> FALSE, heartbeats |-> 0,
     pollTimer |-> FALSE, polls |-> 0, targets |-> {}, subs |-> {},
     listening |-> FALSE]

NoCallYet == [op |-> "none", arg |-> <<>>, raised |-> FALSE, emitted |-> "none",
              steps |-> <<>>, pre |-> NewChainAdapter("evm")]

\* Live setInterval timers an adapter may own at once.
MaxHeartbeats == 2
MaxPolls == 2

\* startHeartbeat: the new interval's id overwrites the field.
WithHeartbeatStarted(a) ==
    [a EXCEPT !.heartbeatTimer = TRUE, !.heartbeats = @ + 1]

\* stopHeartbeat: clears the interval the field names, if any.
WithHeartbeatStopped(a) ==
    IF a.heartbeatTimer
    THEN [a EXCEPT !.heartbeatTimer = FALSE, !.heartbeats = @ - 1]
    ELSE a

\* startBlockPolling / startPolling / startEventSubscription /
\* startEventPolling.
WithPollStarted(a) ==
    [a EXCEPT !.pollTimer = TRUE, !.polls = @ + 1]

\* stopBlockPolling / stopPolling / stopEventSubscription / stopEventPolling.
WithPollStopped(a) ==
    IF a.pollTimer
    THEN [a EXCEPT !.pollTimer = FALSE, !.polls = @ - 1]
    ELSE a

\* The addresses the per-target setup of an adapter subscribes, out of ts.
\* EVM: a transfer or a minting listener; Solana: an account subscription
\* for transfer; Tron: a transfer entry; Sui: always; Bitcoin: the UTXO
\* snapshot of a transfer target, which its caller draws.
Subscribable(kind, ts) ==
    CASE kind = "evm" ->
            {x.address : x \in {y \in ts : HasEventType(y, "transfer")
                                           \/ HasEventType(y, "nft_mint")}}
      [] kind \in SuiKinds -> TargetKeys(ts)
      [] OTHER -> {x.address : x \in {y \in ts : HasEventType(y, "transfer")}}

\* setupEventListeners / setupTargetMonitoring / subscribeToTarget over ts,
\* loaded being the UTXO snapshots the Bitcoin adapter could fetch.
WithTargetsSetUp(a, ts, loaded) ==
    CASE a.kind = "evm" ->
            IF a.handle /\ a.monitoringActive
            THEN [a EXCEPT !.listening = TRUE,
                           !.subs = Subscribable("evm", a.targets)]
            ELSE a
      [] a.kind \in SuiKinds ->
            [a EXCEPT !.subs = @ \cup Subscribable(a.kind, ts)]
      [] a.kind = "bitcoin" ->
            IF a.handle /\ a.monitoringActive
            THEN [a EXCEPT !.subs = @ \cup (Subscribable("bitcoin", ts) \cap loaded)]
            ELSE a
      [] OTHER ->
            IF a.handle /\ a.monitoringActive
            THEN [a EXCEPT !.subs = @ \cup Subscribable(a.kind, ts)]
            ELSE a

\* What the Bitcoin adapter's UTXO fetches may return; the other adapters
\* set their subscriptions up locally.
LoadedInputs(a, ts) ==
    IF a.kind = "bitcoin" /\ a.handle /\ a.monitoringActive
    THEN SUBSET Subscribable("bitcoin", ts)
    ELSE {{}}

\* The adapter after connect(): a new handle, the tip fetch, then connected
\* and startHeartbeat; when the fetch fails the Sui adapters clear connected.
AfterConnect(a, ok) ==
    LET fresh == IF a.kind = "evm"
                 THEN [a EXCEPT !.handle = TRUE, !.subs = {}, !.listening = FALSE]
                 ELSE [a EXCEPT !.handle = TRUE]
    IN  IF ok THEN WithHeartbeatStarted([fresh EXCEPT !.connected = TRUE])
        ELSE IF a.kind \in SuiKinds THEN [fresh EXCEPT !.connected = FALSE]
        ELSE fresh

\* connect()
AdapterConnect(ok) ==
    /\ ad.heartbeats < MaxHeartbeats
    /\ ad' = AfterConnect(ad, ok)
    /\ IF ok
           THEN /\ lastCall' = [op |-> "connect", arg |-> <<>>, raised |-> FALSE,
                                emitted |-> "connectionStatus",
                                steps |-> <<"handle", "startHeartbeat">>, pre |-> ad]
           ELSE /\ lastCall' = [op |-> "connect", arg |-> <<>>, raised |-> TRUE,
                                emitted |-> IF ad.kind \in SuiKinds THEN "error" ELSE "none",
                                steps |-> <<"handle">>, pre |-> ad]
    /\ UNCHANGED <<pipeVars, mgrVars, retryVars, regVars, registerVars, facadeVars, wrapperVars, eventVars, solVars, suiVars, pollVars, configVars, ruleVars, contractVars, redisVars, orderVars, reconnVars, lifeVars, gateVars>>

\* The sui source calls stopEventPolling, which that class does not define:
\* the call throws after stopHeartbeat, and the catch block emits "error".
DisconnectSteps(kind) ==
    CASE kind = "evm" -> <<"stopHeartbeat", "release">>
      [] kind = "solana" -> <<"stopHeartbeat", "removeAllSubscriptions", "release">>
      [] kind = "sui" -> <<"stopHeartbeat", "throw">>
      [] OTHER -> <<"stopHeartbeat", "stopPolling", "release">>

RECURSIVE DisconnectFrom(_, _, _)
DisconnectFrom(a, steps, i) ==
    IF i > Len(steps) THEN a
    ELSE LET s == steps[i] IN
         IF s = "throw" THEN a
         ELSE DisconnectFrom(
                CASE s = "stopHeartbeat" -> WithHeartbeatStopped(a)
                  [] s = "stopPolling" ->
                        IF a.kind = "bitcoin"
                        THEN [WithPollStopped(a) EXCEPT !.subs = {}]
                        ELSE WithPollStopped(a)
                  [] s = "removeAllSubscriptions" ->
                        IF a.handle THEN [a EXCEPT !.subs = {}, !.listening = FALSE]
                        ELSE a
                  [] s = "release" ->
                        IF a.kind = "evm"
                        THEN [a EXCEPT !.handle = FALSE, !.subs = {}, !.listening = FALSE]
                        ELSE [a EXCEPT !.handle = FALSE],
                steps, i + 1)

\* The adapter after disconnect(): EVM, Solana, Bitcoin and Tron clear both
\* flags first; the Sui adapters clear connected after their stop calls and
\* never touch monitoringActive.
AfterDisconnect(a) ==
    LET steps == DisconnectSteps(a.kind)
        flagged == IF a.kind \in SuiKinds
                   THEN a
                   ELSE [a EXCEPT !.connected = FALSE, !.monitoringActive = FALSE]
        done == DisconnectFrom(flagged, steps, 1)
        thrown == \E i \in 1..Len(steps) : steps[i] = "throw"
    IN  IF a.kind \in SuiKinds /\ ~thrown
        THEN [done EXCEPT !.connected = FALSE]
        ELSE done

\* disconnect()
AdapterDisconnect ==
    /\ LET steps == DisconnectSteps(ad.kind)
           thrown == \E i \in 1..Len(steps) : steps[i] = "throw"
       IN  /\ ad' = AfterDisconnect(ad)
           /\ lastCall' = [op |-> "disconnect", arg |-> <<>>, raised |-> FALSE,
                           emitted |-> IF thrown THEN "error" ELSE "connectionStatus",
                           steps |-> steps, pre |-> ad]
    /\ UNCHANGED <<pipeVars, mgrVars, retryVars, regVars, registerVars, facadeVars, wrapperVars, eventVars, solVars, suiVars, pollVars, configVars, ruleVars, contractVars, redisVars, orderVars, reconnVars, lifeVars, gateVars>>

\* addMonitoringTarget(target)
AdapterAddMonitoringTarget(target) ==
    /\ IF ValidateMonitoringTargetThrows(ad.kind, target)
       THEN /\ ad' = ad
            /\ lastCall' = [op |-> "addMonitoringTarget", arg |-> <<target>>, raised |-> TRUE,
                            emitted |-> "none", steps |-> <<>>, pre |-> ad]
       ELSE LET stored == [ad EXCEPT !.targets = TargetsSet(@, target)] IN
            \E loaded \in LoadedInputs(stored, {target}) :
                /\ ad' = IF stored.monitoringActive
                         THEN WithTargetsSetUp(stored, {target}, loaded)
                         ELSE stored
                /\ lastCall' = [op |-> "addMonitoringTarget", arg |-> <<target>>, raised |-> FALSE,
                                emitted |-> "none", steps |-> <<"set">>, pre |-> ad]
    /\ UNCHANGED <<pipeVars, mgrVars, retryVars, regVars, registerVars, facadeVars, wrapperVars, eventVars, solVars, suiVars, pollVars, configVars, ruleVars, contractVars, redisVars, orderVars, reconnVars, lifeVars, gateVars>>

\* removeMonitoringTarget(address)
AdapterRemoveMonitoringTarget(address) ==
    /\ address \in TargetKeys(ad.targets)
    /\ LET removed == [ad EXCEPT !.targets = TargetsDelete(@, address)] IN
       ad' = CASE ad.kind = "evm" ->
                    IF removed.monitoringActive
                    THEN WithTargetsSetUp(removed, removed.targets, {})
                    ELSE removed
               [] ad.kind = "solana" ->
                    IF ad.handle THEN [removed EXCEPT !.subs = @ \ {address}]
                    ELSE removed
               [] OTHER -> [removed EXCEPT !.subs = @ \ {address}]
    /\ lastCall' = [op |-> "removeMonitoringTarget", arg |-> <<address>>, raised |-> FALSE,
                    emitted |-> "none", steps |-> <<"delete">>, pre |-> ad]
    /\ UNCHANGED <<pipeVars, mgrVars, retryVars, regVars, registerVars, facadeVars, wrapperVars, eventVars, solVars, suiVars, pollVars, configVars, ruleVars, contractVars, redisVars, orderVars, reconnVars, lifeVars, gateVars>>

PollingKinds == {"bitcoin", "tron", "sui", "sui_polling"}

\* startMonitoring() refuses: the Sui adapters return, the others throw.
StartMonitoringRefuses(a) ==
    IF a.kind \in SuiKinds
    THEN ~a.connected \/ a.monitoringActive
    ELSE ~a.connected \/ ~a.handle

\* The adapter after a startMonitoring() that does not refuse: the flag, the
\* per-target setup and, on the polling adapters, one more poll interval.
AfterStartMonitoring(a, loaded) ==
    LET active == [a EXCEPT !.monitoringActive = TRUE]
        setUp == WithTargetsSetUp(active, active.targets, loaded)
        logs == IF a.kind = "solana" /\ setUp.handle
                THEN [setUp EXCEPT !.listening = TRUE]
                ELSE setUp
    IN  IF a.kind \in PollingKinds THEN WithPollStarted(logs) ELSE logs

\* startMonitoring()
AdapterStartMonitoring ==
    /\ ad.polls < MaxPolls
    /\ IF StartMonitoringRefuses(ad)
       THEN /\ ad' = ad
            /\ lastCall' = [op |-> "startMonitoring", arg |-> <<>>, raised |-> ad.kind \notin SuiKinds,
                            emitted |-> "none", steps |-> <<>>, pre |-> ad]
       ELSE LET active == [ad EXCEPT !.monitoringActive = TRUE] IN
            \E loaded \in LoadedInputs(active, active.targets) :
                    /\ ad' = AfterStartMonitoring(ad, loaded)
                    /\ lastCall' = [op |-> "startMonitoring", arg |-> <<>>, raised |-> FALSE,
                                    emitted |-> "none", steps |-> <<"setup">>, pre |-> ad]
    /\ UNCHANGED <<pipeVars, mgrVars, retryVars, regVars, registerVars, facadeVars, wrapperVars, eventVars, solVars, suiVars, pollVars, configVars, ruleVars, contractVars, redisVars, orderVars, reconnVars, lifeVars, gateVars>>

\* stopMonitoring()
AdapterStopMonitoring ==
    /\ ad' = CASE ad.kind = "evm" ->
                    IF ad.handle
                    THEN [ad EXCEPT !.monitoringActive = FALSE, !.subs = {},
                                    !.listening = FALSE]
                    ELSE [ad EXCEPT !.monitoringActive = FALSE]
               [] ad.kind = "solana" ->
                    IF ad.handle
                    THEN [ad EXCEPT !.monitoringActive = FALSE, !.subs = {},
                                    !.listening = FALSE]
                    ELSE [ad EXCEPT !.monitoringActive = FALSE]
               [] ad.kind \in SuiKinds ->
                    IF ad.monitoringActive
                    THEN [WithPollStopped(ad) EXCEPT !.monitoringActive = FALSE,
                                                     !.subs = @ \ TargetKeys(ad.targets)]
                    ELSE ad
               [] OTHER ->
                    [WithPollStopped(ad) EXCEPT !.monitoringActive = FALSE, !.subs = {}]
    /\ lastCall' = [op |-> "stopMonitoring", arg |-> <<>>, raised |-> FALSE,
                    emitted |-> "none", steps |-> <<>>, pre |-> ad]
    /\ UNCHANGED <<pipeVars, mgrVars, retryVars, regVars, registerVars, facadeVars, wrapperVars, eventVars, solVars, suiVars, pollVars, configVars, ruleVars, contractVars, redisVars, orderVars, reconnVars, lifeVars, gateVars>>

\* What a heartbeat whose tip fetch failed does to the adapter: the Sui
\* adapters clear connected, the others leave the fields alone.
AfterFailedHeartbeat(a) ==
    IF a.kind \in SuiKinds THEN [a EXCEPT !.connected = FALSE] ELSE a

\* What a failed heartbeat emits.
FailedHeartbeatEmits(kind) ==
    IF kind \in SuiKinds THEN "connectionStatus" ELSE "error"

\* The callback of a heartbeat interval.  EVM, Solana and Tron skip the
\* fetch without a handle; Bitcoin's and Sui's getCurrentBlockNumber throws
\* without one.
AdapterHeartbeat(ok) ==
    /\ ad.heartbeats > 0
    /\ LET guarded == ad.kind \in {"evm", "solana", "tron"}
           failed == IF ad.handle THEN ~ok ELSE ~guarded
       IN  /\ ad.handle \/ ok
           /\ ad' = IF failed THEN AfterFailedHeartbeat(ad) ELSE ad
           /\ lastCall' = [op |-> "heartbeat", arg |-> <<>>, raised |-> failed,
                           emitted |-> IF failed THEN FailedHeartbeatEmits(ad.kind)
                                       ELSE IF guarded THEN "none"
                                       ELSE "connectionStatus",
                           steps |-> IF ad.handle THEN <<"fetch">> ELSE <<>>,
                           pre |-> ad]
    /\ UNCHANGED <<pipeVars, mgrVars, retryVars, regVars, registerVars, facadeVars, wrapperVars, eventVars, solVars, suiVars, pollVars, configVars, ruleVars, contractVars, redisVars, orderVars, reconnVars, lifeVars, gateVars>>

\* The callback of a poll interval.
AdapterPoll ==
    /\ ad.polls > 0
    /\ ad' = ad
    /\ lastCall' = [op |-> "poll", arg |-> <<>>, raised |-> FALSE, emitted |-> "none",
                    steps |-> IF ad.handle /\ ad.monitoringActive
                              THEN <<"fetch">> ELSE <<>>,
                    pre |-> ad]
    /\ UNCHANGED <<pipeVars, mgrVars, retryVars, regVars, registerVars, facadeVars, wrapperVars, eventVars, solVars, suiVars, pollVars, configVars, ruleVars, contractVars, redisVars, orderVars, reconnVars, lifeVars, gateVars>>

AdapterNext ==
    \/ \E ok \in BOOLEAN : AdapterConnect(ok)
    \/ AdapterDisconnect
    \/ \E target \in TargetInputs : AdapterAddMonitoringTarget(target)
    \/ \E address \in AddressInputs : AdapterRemoveMonitoringTarget(address)
    \/ AdapterStartMonitoring
    \/ AdapterStopMonitoring
    \/ \E ok \in BOOLEAN : AdapterHeartbeat(ok)
    \/ AdapterPoll

(***************************************************************************)
(* ChainsListener.addWalletAddress, addTokenContract and addEnhancedTarget *)
(* over ChainManager.addMonitoringTarget.  chainTargets[c] is              *)
(* monitoringTargets of the adapter registered for chain c; lastFacade is  *)
(* the last call: what it was given, which chains rejected the target,     *)
(* which targetAdded signals the manager emitted, what the facade emitted  *)
(* and whether the call's promise rejected.                                *)
(***************************************************************************)
\* The chains whose adapters initializeAdapters registered (ethereum, sui
\* and trx enabled in the configuration); it never registers bitcoin.
FacadeChains == {"ethereum", "sui", "trx"}

FacadeChainInputs == FacadeChains \cup {"bitcoin"}

ChainAdapterKind(chainType) ==
    CASE chainType \in {"ethereum", "bsc"} -> "evm"
      [] chainType = "trx" -> "tron"
      [] OTHER -> chainType

\* A 40-digit hex address, a 64-digit hex address and the empty string.
FacadeAddressInputs ==
    {a \in AddressInputs : a.id = "a" /\ a.alphabet = "hex"}

ChainsInputs == Optional({{"ethereum"}, {"sui", "trx", "bitcoin"}})

\* EnhancedMonitoringTarget.chains
TargetChainsInputs == Optional({{"sui", "trx"}})

NoFacadeCall ==
    [op |-> "none", target |-> <<>>, chains |-> {}, rejected |-> {},
     targetAdded |-> {}, raised |-> FALSE, emitted |-> "none",
     pre |-> [c \in FacadeChains |-> {}]]

\* The chains of targetChains that pass isChainSupported and whose
\* adapter.addMonitoringTarget throws.
RejectingChains(targetChains, target) ==
    {c \in targetChains \cap FacadeChains :
        ValidateMonitoringTargetThrows(ChainAdapterKind(c), target)}

\* The body the three methods share: one ChainManager.addMonitoringTarget
\* per chain of targetChains that is supported, Promise.allSettled, emit.
\* The result is chainTargets and lastFacade after the call.
FacadeAdd(op, signal, target, targetChains) ==
    LET supported == targetChains \cap FacadeChains
        rejecting == RejectingChains(targetChains, target)
    IN  [targets |-> [c \in FacadeChains |->
                         IF c \in supported \ rejecting
                         THEN TargetsSet(chainTargets[c], target)
                         ELSE chainTargets[c]],
         last |-> [op |-> op, target |-> <<target>>, chains |-> targetChains,
                   rejected |-> rejecting,
                   targetAdded |-> supported \ rejecting,
                   raised |-> FALSE, emitted |-> signal,
                   pre |-> chainTargets]]

\* `chains || fallback`: an array, even an empty one, is truthy.
ChainsOr(chains, fallback) == IF chains = <<>> THEN fallback ELSE chains[1]

AddWalletAddress(address, chains) ==
    LET done == FacadeAdd("addWalletAddress", "walletAdded",
                    [address |-> address,
                     eventTypes |-> <<"transfer", "native_transfer">>],
                    ChainsOr(chains, FacadeChains))
    IN  /\ chainTargets' = done.targets
        /\ lastFacade' = done.last
        /\ UNCHANGED <<pipeVars, mgrVars, retryVars, regVars, registerVars, adVars, wrapperVars, eventVars, solVars, suiVars, pollVars, configVars, ruleVars, contractVars, redisVars, orderVars, reconnVars, lifeVars, gateVars>>

AddTokenContract(address, chains) ==
    LET done == FacadeAdd("addTokenContract", "contractAdded",
                    [address |-> address,
                     eventTypes |-> <<"token_mint", "transfer">>],
                    ChainsOr(chains, FacadeChains \cap {"ethereum", "bsc", "sui", "trx"}))
    IN  /\ chainTargets' = done.targets
        /\ lastFacade' = done.last
        /\ UNCHANGED <<pipeVars, mgrVars, retryVars, regVars, registerVars, adVars, wrapperVars, eventVars, solVars, suiVars, pollVars, configVars, ruleVars, contractVars, redisVars, orderVars, reconnVars, lifeVars, gateVars>>

EnhancedEventTypeInputs == { <<>>, <<"nft_mint">> }

AddEnhancedTarget(address, eventTypes, targetChainsField, chains) ==
    LET done == FacadeAdd("addEnhancedTarget", "enhancedTargetAdded",
                    [address |-> address, eventTypes |-> eventTypes],
                    ChainsOr(chains, ChainsOr(targetChainsField, FacadeChains)))
    IN  /\ chainTargets' = done.targets
        /\ lastFacade' = done.last
        /\ UNCHANGED <<pipeVars, mgrVars, retryVars, regVars, registerVars, adVars, wrapperVars, eventVars, solVars, suiVars, pollVars, configVars, ruleVars, contractVars, redisVars, orderVars, reconnVars, lifeVars, gateVars>>

FacadeNext ==
    \/ \E a \in FacadeAddressInputs, chains \in ChainsInputs : AddWalletAddress(a, chains)
    \/ \E a \in FacadeAddressInputs, chains \in ChainsInputs : AddTokenContract(a, chains)
    \/ \E a \in FacadeAddressInputs, t \in EnhancedEventTypeInputs,
          f \in TargetChainsInputs, chains \in ChainsInputs : AddEnhancedTarget(a, t, f, chains)

(***************************************************************************)
(* IChainAdapter.retry(operation, context): the wrapper every adapter puts *)
(* around its remote calls.  wrapper holds one call of it:                 *)
(*   max       config.maxRetryAttempts, context   the context string,      *)
(*   attempt   the loop variable,                                          *)
(*   outcomes  what each operation() call did, in order,                   *)
(*   sleeps    the delays it slept, in order,                              *)
(*   notices   "error" signals emitted after a sleep,                      *)
(*   result / error   what the call returned or threw.                     *)
(***************************************************************************)
\* The largest config.maxRetryAttempts tried.
MaxAdapterRetryAttempts == 6

WrapperBaseDelay == 1000
WrapperDelayCap == 30000

WrapperContexts == {"getCurrentBlockNumber", "getCurrentSlot"}

WrapperValues == {"v1", "v2"}

IdleWrapper ==
    [pc |-> "idle", max |-> 0, context |-> "", attempt |-> 0,
     outcomes |-> <<>>, sleeps |-> <<>>, notices |-> 0,
     result |-> <<>>, error |-> <<>>]

\* A delay that doubles without a cap.
WrapperDelayUncapped(attempt) == WrapperBaseDelay * Pow(2, attempt)

\* const delay = Math.min(1000 * 2 ** attempt, 30000)
WrapperDelay(attempt) ==
    IF WrapperBaseDelay * Pow(2, attempt) < WrapperDelayCap
    THEN WrapperBaseDelay * Pow(2, attempt)
    ELSE WrapperDelayCap

\* retry(operation, context) is called: attempt = 0 passes the loop test.
WrapperCalled(max, context) ==
    /\ wrapper.pc = "idle"
    /\ wrapper' = [IdleWrapper EXCEPT !.pc = "operation", !.max = max,
                                      !.context = context]
    /\ UNCHANGED <<pipeVars, mgrVars, retryVars, regVars, registerVars, adVars,
                   facadeVars, eventVars, solVars, suiVars, pollVars, configVars, ruleVars, contractVars, redisVars, orderVars, reconnVars, lifeVars, gateVars>>

\* await operation() settles.  A value is returned at once; an error is
\* kept as lastError, and either the wrapper sleeps or, attempt being
\* maxRetryAttempts, the loop ends and the wrapper throws.
WrapperOperationSettles(ok, value) ==
    /\ wrapper.pc = "operation"
    /\ wrapper' =
          IF ok
          THEN [wrapper EXCEPT !.pc = "returned",
                               !.outcomes = Append(@, <<"ok", value>>),
                               !.result = <<value>>]
          ELSE IF wrapper.attempt < wrapper.max
          THEN [wrapper EXCEPT !.pc = "sleeping",
                               !.outcomes = Append(@, <<"failed">>),
                               !.sleeps = Append(@, WrapperDelay(wrapper.attempt))]
          ELSE [wrapper EXCEPT !.pc = "raised",
                               !.outcomes = Append(@, <<"failed">>),
                               !.attempt = @ + 1,
                               !.error = <<[context |-> wrapper.context,
                                            attempts |-> wrapper.max]>>]
    /\ UNCHANGED <<pipeVars, mgrVars, retryVars, regVars, registerVars, adVars,
                   facadeVars, eventVars, solVars, suiVars, pollVars, configVars, ruleVars, contractVars, redisVars, orderVars, reconnVars, lifeVars, gateVars>>

\* await this.sleep(delay) is over: the "retrying" notice, attempt++, and
\* the loop test passes because attempt was below maxRetryAttempts.
WrapperWakes ==
    /\ wrapper.pc = "sleeping"
    /\ wrapper' = [wrapper EXCEPT !.pc = "operation", !.attempt = @ + 1,
                                  !.notices = @ + 1]
    /\ UNCHANGED <<pipeVars, mgrVars, retryVars, regVars, registerVars, adVars,
                   facadeVars, eventVars, solVars, suiVars, pollVars, configVars, ruleVars, contractVars, redisVars, orderVars, reconnVars, lifeVars, gateVars>>

WrapperNext ==
    \/ \E max \in 0..MaxAdapterRetryAttempts, context \in WrapperContexts :
          WrapperCalled(max, context)
    \/ \E ok \in BOOLEAN, value \in WrapperValues : WrapperOperationSettles(ok, value)
    \/ WrapperWakes

(***************************************************************************)
(* Events as the adapters build them.  An EVM adapter with monitoring on:  *)
(* chainHead is the chain's newest block, currentBlockNumber the field the *)
(* "block" listener writes, parsing the logs handed to a listener whose    *)
(* parse is awaiting getBlockInfo, emitted the blockchainEvent signals.    *)
(* An emitted event carries the observation it was built from: the log and *)
(* the listener, or the transaction and the log line.                      *)
(***************************************************************************)
\* Blocks mined while the adapter listens, and logs in flight or emitted.
MaxHead == 2
MaxObservations == 2

\* this.generateEventId(txHash, logIndex): `${chainType}_${txHash}${suffix}`,
\* the suffix `_${logIndex}` being left out when logIndex is undefined.
\* logIndex is <<>> or <<i>>.
GenerateEventId(chainType, txHash, logIndex) == <<chainType, txHash>> \o logIndex

\* Logs of blocks 1 and 2: two Transfer logs of one transaction, the first
\* a mint (from the zero address), and an Approval log of another one; all
\* three are emitted by the monitored address.
EvmLogs ==
    { [transactionHash |-> "tx1", index |-> 0, blockNumber |-> 1,
       topic |-> "Transfer", fromZero |-> TRUE],
      [transactionHash |-> "tx1", index |-> 1, blockNumber |-> 1,
       topic |-> "Transfer", fromZero |-> FALSE],
      [transactionHash |-> "tx2", index |-> 0, blockNumber |-> 2,
       topic |-> "Approval", fromZero |-> FALSE] }

\* The listeners of setupTransferListener and setupMintingListener:
\* handleTransferEvent, handleNativeTransfer, handleMintingEvent.
EvmListeners == {"transfer", "native", "mint"}

\* The provider hands the log to the listener: the native listener's filter
\* is the address alone, the others name the Transfer topic.
EvmFilterMatches(listener, log) ==
    CASE listener = "native" -> TRUE
      [] listener = "transfer" -> log.topic = "Transfer"
      [] listener = "mint" -> log.topic = "Transfer" /\ log.fromZero

\* this.currentBlockNumber - log.blockNumber
ConfirmationCount(tip, blockNumber) == tip - blockNumber

\* evmConfig.blockConfirmationCount
BlockConfirmationCount == 1

\* parseLogToTransferEvent / parseLogToNativeTransferEvent /
\* parseLogToMintingEvent once getBlockInfo has settled.
EvmParsedEvent(listener, log, tip) ==
    [id |-> GenerateEventId("ethereum", log.transactionHash,
                IF listener = "native" THEN <<>> ELSE <<log.index>>),
     chainType |-> "ethereum",
     eventType |-> CASE listener = "transfer" -> "transfer"
                     [] listener = "native" -> "native_transfer"
                     [] listener = "mint" -> "token_mint",
     blockNumber |-> log.blockNumber,
     confirmed |-> ConfirmationCount(tip, log.blockNumber)
                       >= BlockConfirmationCount,
     confirmationCount |-> ConfirmationCount(tip, log.blockNumber),
     observation |-> <<log.transactionHash, log.index>>,
     handler |-> listener]

\* The chain grows by a block.
BlockMined ==
    /\ chainHead < MaxHead
    /\ chainHead' = chainHead + 1
    /\ UNCHANGED <<pipeVars, mgrVars, retryVars, regVars, registerVars, adVars,
                   facadeVars, wrapperVars, currentBlockNumber, parsing, emitted, solVars, suiVars, pollVars, configVars, ruleVars, contractVars, redisVars, orderVars, reconnVars, lifeVars, gateVars>>

\* provider.on("block", ...): this.currentBlockNumber = blockNumber.
BlockNotified(blockNumber) ==
    /\ blockNumber > currentBlockNumber
    /\ blockNumber <= chainHead
    /\ currentBlockNumber' = blockNumber
    /\ UNCHANGED <<pipeVars, mgrVars, retryVars, regVars, registerVars, adVars,
                   facadeVars, wrapperVars, chainHead, parsing, emitted, solVars, suiVars, pollVars, configVars, ruleVars, contractVars, redisVars, orderVars, reconnVars, lifeVars, gateVars>>

\* A log of a mined block reaches a listener, whose parse awaits.
LogNotified(listener, log) ==
    /\ log.blockNumber <= chainHead
    /\ EvmFilterMatches(listener, log)
    /\ <<listener, log>> \notin parsing
    /\ \A e \in emitted : ~(e.handler = listener /\ e.observation = <<log.transactionHash, log.index>>)
    /\ Cardinality(parsing) + Cardinality(emitted) < MaxObservations
    /\ parsing' = parsing \cup {<<listener, log>>}
    /\ UNCHANGED <<pipeVars, mgrVars, retryVars, regVars, registerVars, adVars,
                   facadeVars, wrapperVars, chainHead, currentBlockNumber, emitted, solVars, suiVars, pollVars, configVars, ruleVars, contractVars, redisVars, orderVars, reconnVars, lifeVars, gateVars>>

\* The parse resumes, builds the event from the fields as they are now, and
\* the handler emits it.
LogParsed(listener, log) ==
    /\ <<listener, log>> \in parsing
    /\ parsing' = parsing \ {<<listener, log>>}
    /\ emitted' = emitted \cup {EvmParsedEvent(listener, log, currentBlockNumber)}
    /\ UNCHANGED <<pipeVars, mgrVars, retryVars, regVars, registerVars, adVars,
                   facadeVars, wrapperVars, chainHead, currentBlockNumber, solVars, suiVars, pollVars, configVars, ruleVars, contractVars, redisVars, orderVars, reconnVars, lifeVars, gateVars>>

\* Solana: the log lines of one transaction as onLogs delivers them.
SolanaLogLines == <<"Program log: Instruction: Transfer",
                    "Program log: Instruction: MintTo",
                    "Program consumed 4644 compute units">>

\* log.includes("Transfer") || log.includes("MintTo") ||
\* log.includes("InitializeMint")
SolanaLineMatches(i) == i \in {1, 2}

\* parseLogToEvent(log, signature, context)
SolanaParsedEvent(i, signature) ==
    [id |-> GenerateEventId("solana", signature, <<>>),
     chainType |-> "solana",
     eventType |-> IF i = 2 THEN "token_mint" ELSE "transfer",
     blockNumber |-> 0,
     confirmed |-> TRUE,
     confirmationCount |-> 1,
     observation |-> <<signature, i>>,
     handler |-> "logs"]

SolanaSignatures == {"sig1"}

\* handleProgramLogs: one event per matching line of the transaction.
ProgramLogsNotified(signature) ==
    /\ \A e \in emitted : e.chainType # "solana"
    /\ emitted' = emitted \cup
          {SolanaParsedEvent(i, signature) :
              i \in {j \in 1..Len(SolanaLogLines) : SolanaLineMatches(j)}}
    /\ UNCHANGED <<pipeVars, mgrVars, retryVars, regVars, registerVars, adVars,
                   facadeVars, wrapperVars, chainHead, currentBlockNumber, parsing, solVars, suiVars, pollVars, configVars, ruleVars, contractVars, redisVars, orderVars, reconnVars, lifeVars, gateVars>>

EventsNext ==
    \/ BlockMined
    \/ \E n \in 1..MaxHead : BlockNotified(n)
    \/ \E listener \in EvmListeners, log \in EvmLogs : LogNotified(listener, log)
    \/ \E listener \in EvmListeners, log \in EvmLogs : LogParsed(listener, log)
    \/ \E signature \in SolanaSignatures : ProgramLogsNotified(signature)

(***************************************************************************)
(* SolanaAdapter: the subscription map, the subscriptions that are live    *)
(* on the connection, and the mint-supply detector.                        *)
(***************************************************************************)
\* Subscription ids the connection hands out in one run.
MaxSubscriptions == 3
\* Handlers that wait for getMintInfo at one time.
MaxPending == 2

SolAddresses == {"mint1", "wallet1"}
\* What getAccountInfo says about the owner of the account.
IsMintAccount(address) == address = "mint1"
SolEventTypeInputs == {{"transfer"}, {"token_mint"}}
\* Supplies the mint goes through, in base units, and its decimals.
SupplyValues == {0, 5, 150}
MintDecimalsInputs == {0, 2}

\* subscriptions is the Map key -> id as a set of entries; live holds what
\* connection.onAccountChange / onLogs created and nobody removed.
NewSolanaAdapter ==
    [connection       |-> FALSE,
     connected        |-> FALSE,
     monitoringActive |-> FALSE,
     targets          |-> [address \in SolAddresses |-> <<>>],
     subscriptions    |-> {},
     live             |-> {},
     nextId           |-> 1,
     cache            |-> <<>>,
     setupSupply      |-> <<>>,
     decimals         |-> <<>>,
     pending          |-> 0]

NoSolanaCall ==
    [op |-> "none", address |-> "none", s0 |-> <<>>, s1 |-> <<>>,
     emitted |-> <<>>]

SolanaCall(op, address) ==
    [op |-> op, address |-> address, s0 |-> <<>>, s1 |-> <<>>,
     emitted |-> <<>>]

\* connection.onAccountChange(...) followed by subscriptions.set(key, id).
SolSubscribe(a, key) ==
    [a EXCEPT
        !.subscriptions =
            {e \in @ : e.key # key} \cup {[key |-> key, id |-> a.nextId]},
        !.live = @ \cup {[id |-> a.nextId, key |-> key]},
        !.nextId = @ + 1]

SetupAccountChangeMonitoring(a, address) ==
    IF ~a.connection THEN a ELSE SolSubscribe(a, <<"account", address>>)

\* getAccountInfo, then a mint_ or a token_ subscription by the owner of
\* the account.  supply is what the account data held at that moment.
SetupTokenMintMonitoring(a, address, supply) ==
    IF ~a.connection THEN a
    ELSE IF IsMintAccount(address)
         THEN [SolSubscribe(a, <<"mint", address>>) EXCEPT
                  !.setupSupply = <<supply>>]
         ELSE SolSubscribe(a, <<"token", address>>)

SetupTargetMonitoring(a, address, eventTypes, supply) ==
    IF ~a.connection \/ ~a.monitoringActive THEN a
    ELSE LET a1 == IF "transfer" \in eventTypes
                   THEN SetupAccountChangeMonitoring(a, address)
                   ELSE a
         IN  IF "token_mint" \in eventTypes
             THEN SetupTokenMintMonitoring(a1, address, supply)
             ELSE a1

SetupProgramLogMonitoring(a) ==
    IF ~a.connection THEN a ELSE SolSubscribe(a, <<"logs", "spl_token">>)

TargetSubscriptionKeys(address) ==
    {<<"account", address>>, <<"token", address>>, <<"mint", address>>}

\* For the three keys of the address: remove the listener whose id the map
\* holds, delete the key.
RemoveTargetMonitoring(a, address) ==
    IF ~a.connection THEN a
    ELSE LET gone == {e \in a.subscriptions :
                         e.key \in TargetSubscriptionKeys(address)}
         IN  [a EXCEPT
                 !.live = {l \in @ : l.id \notin {e.id : e \in gone}},
                 !.subscriptions = @ \ gone]

RemoveAllSubscriptions(a) ==
    IF ~a.connection THEN a
    ELSE [a EXCEPT
             !.live = {l \in @ : l.id \notin {e.id : e \in a.subscriptions}},
             !.subscriptions = {}]

RECURSIVE SetupTargets(_, _, _)
SetupTargets(a, addresses, supply) ==
    IF addresses = {} THEN a
    ELSE LET address == CHOOSE x \in addresses : TRUE
         IN  SetupTargets(
                 SetupTargetMonitoring(a, address, a.targets[address][1],
                                       supply),
                 addresses \ {address}, supply)

\* formatTokenAmount: whole part and the fractional digits, padded to the
\* decimals and with the trailing zeros cut; the whole part alone when the
\* fraction is zero.
PaddedDigits(n, width) ==
    [i \in 1..width |-> (n \div Pow(10, width - i)) % 10]

RECURSIVE TrimTrailingZeros(_)
TrimTrailingZeros(digits) ==
    IF digits # <<>> /\ digits[Len(digits)] = 0
    THEN TrimTrailingZeros(SubSeq(digits, 1, Len(digits) - 1))
    ELSE digits

FormatTokenAmount(amount, decimals) ==
    LET divisor        == Pow(10, decimals)
        wholePart      == amount \div divisor
        fractionalPart == amount % divisor
    IN  IF fractionalPart = 0
        THEN [whole |-> wholePart, fraction |-> <<>>]
        ELSE [whole |-> wholePart,
              fraction |->
                  TrimTrailingZeros(PaddedDigits(fractionalPart, decimals))]

\* The supply the adapter has seen last: the cached one, and before any was
\* cached the one in the account data setupTokenMintMonitoring fetched.
LastKnownSupply(a) == IF a.cache # <<>> THEN a.cache ELSE a.setupSupply

SolConnect(ok) ==
    /\ sol' = [sol EXCEPT !.connection = TRUE,
                          !.connected = IF ok THEN TRUE ELSE @]
    /\ lastSol' = SolanaCall(IF ok THEN "connect" ELSE "connectFailed", "none")
    /\ UNCHANGED mintSupply
    /\ UNCHANGED <<pipeVars, mgrVars, retryVars, regVars, registerVars, adVars, facadeVars, wrapperVars, eventVars, suiVars, pollVars, configVars, ruleVars, contractVars, redisVars, orderVars, reconnVars, lifeVars, gateVars>>

SolDisconnect ==
    /\ sol' = [RemoveAllSubscriptions(
                   [sol EXCEPT !.connected = FALSE,
                               !.monitoringActive = FALSE])
               EXCEPT !.connection = FALSE]
    /\ lastSol' = SolanaCall("disconnect", "none")
    /\ UNCHANGED mintSupply
    /\ UNCHANGED <<pipeVars, mgrVars, retryVars, regVars, registerVars, adVars, facadeVars, wrapperVars, eventVars, suiVars, pollVars, configVars, ruleVars, contractVars, redisVars, orderVars, reconnVars, lifeVars, gateVars>>

SolAddMonitoringTarget(address, eventTypes) ==
    LET a1 == [sol EXCEPT !.targets[address] = <<eventTypes>>]
        a2 == IF sol.monitoringActive
              THEN SetupTargetMonitoring(a1, address, eventTypes, mintSupply)
              ELSE a1
    IN  /\ a2.nextId <= MaxSubscriptions + 1
        /\ sol' = a2
        /\ lastSol' = SolanaCall("addMonitoringTarget", address)
        /\ UNCHANGED mintSupply
        /\ UNCHANGED <<pipeVars, mgrVars, retryVars, regVars, registerVars, adVars, facadeVars, wrapperVars, eventVars, suiVars, pollVars, configVars, ruleVars, contractVars, redisVars, orderVars, reconnVars, lifeVars, gateVars>>

SolRemoveMonitoringTarget(address) ==
    /\ sol' = IF sol.targets[address] # <<>>
              THEN [RemoveTargetMonitoring(sol, address)
                    EXCEPT !.targets[address] = <<>>]
              ELSE sol
    /\ lastSol' = SolanaCall("removeMonitoringTarget", address)
    /\ UNCHANGED mintSupply
    /\ UNCHANGED <<pipeVars, mgrVars, retryVars, regVars, registerVars, adVars, facadeVars, wrapperVars, eventVars, suiVars, pollVars, configVars, ruleVars, contractVars, redisVars, orderVars, reconnVars, lifeVars, gateVars>>

SolStartMonitoring ==
    IF ~sol.connected \/ ~sol.connection
    THEN /\ lastSol' = SolanaCall("startMonitoringThrew", "none")
         /\ UNCHANGED <<sol, mintSupply, suiVars, pollVars, configVars, ruleVars, contractVars, redisVars, orderVars, reconnVars, lifeVars, gateVars>>
         /\ UNCHANGED <<pipeVars, mgrVars, retryVars, regVars, registerVars, adVars, facadeVars, wrapperVars, eventVars, suiVars, pollVars, configVars, ruleVars, contractVars, redisVars, orderVars, reconnVars, lifeVars, gateVars>>
    ELSE LET a1 == [sol EXCEPT !.monitoringActive = TRUE]
             a2 == SetupTargets(
                       a1, {x \in SolAddresses : sol.targets[x] # <<>>},
                       mintSupply)
             a3 == SetupProgramLogMonitoring(a2)
         IN  /\ a3.nextId <= MaxSubscriptions + 1
             /\ sol' = a3
             /\ lastSol' = SolanaCall("startMonitoring", "none")
             /\ UNCHANGED mintSupply
             /\ UNCHANGED <<pipeVars, mgrVars, retryVars, regVars, registerVars, adVars, facadeVars, wrapperVars, eventVars, suiVars, pollVars, configVars, ruleVars, contractVars, redisVars, orderVars, reconnVars, lifeVars, gateVars>>

SolStopMonitoring ==
    /\ sol' = RemoveAllSubscriptions([sol EXCEPT !.monitoringActive = FALSE])
    /\ lastSol' = SolanaCall("stopMonitoring", "none")
    /\ UNCHANGED mintSupply
    /\ UNCHANGED <<pipeVars, mgrVars, retryVars, regVars, registerVars, adVars, facadeVars, wrapperVars, eventVars, suiVars, pollVars, configVars, ruleVars, contractVars, redisVars, orderVars, reconnVars, lifeVars, gateVars>>

\* The mint's supply changes on the chain; every live mint subscription
\* gets its callback called, and each handler goes to wait for getMintInfo
\* unless the adapter has no connection.
MintSupplyChanged(supply) ==
    LET notified == {l \in sol.live : l.key[1] = "mint"}
        started  == IF sol.connection THEN Cardinality(notified) ELSE 0
    IN  /\ supply # mintSupply
        /\ notified # {}
        /\ sol.pending + started <= MaxPending
        /\ mintSupply' = supply
        /\ sol' = [sol EXCEPT !.pending = @ + started]
        /\ lastSol' = SolanaCall("mintSupplyChanged", "mint1")
        /\ UNCHANGED <<pipeVars, mgrVars, retryVars, regVars, registerVars, adVars, facadeVars, wrapperVars, eventVars, suiVars, pollVars, configVars, ruleVars, contractVars, redisVars, orderVars, reconnVars, lifeVars, gateVars>>

\* handleMintAccountChange after getMintInfo came back: the comparison
\* with the cached supply, the event, the cache update.
MintAccountChangeHandled(decimals) ==
    /\ sol.pending > 0
    /\ sol.decimals \in {<<>>, <<decimals>>}
    /\ IF ~sol.connection
       THEN /\ sol' = [sol EXCEPT !.pending = @ - 1]
            /\ lastSol' = SolanaCall("mintAccountChangeDropped", "mint1")
       ELSE LET previousMetadata == sol.cache
                minted == /\ previousMetadata # <<>>
                          /\ mintSupply > previousMetadata[1]
            IN  /\ sol' = [sol EXCEPT !.pending = @ - 1,
                                      !.decimals = <<decimals>>,
                                      !.cache = <<mintSupply>>]
                /\ lastSol' =
                       [op      |-> "mintAccountChange",
                        address |-> "mint1",
                        s0      |-> LastKnownSupply(sol),
                        s1      |-> <<mintSupply>>,
                        emitted |->
                            IF minted
                            THEN <<FormatTokenAmount(
                                       mintSupply - previousMetadata[1],
                                       decimals)>>
                            ELSE <<>>]
    /\ UNCHANGED mintSupply
    /\ UNCHANGED <<pipeVars, mgrVars, retryVars, regVars, registerVars, adVars, facadeVars, wrapperVars, eventVars, suiVars, pollVars, configVars, ruleVars, contractVars, redisVars, orderVars, reconnVars, lifeVars, gateVars>>

SolanaNext ==
    \/ \E ok \in BOOLEAN : SolConnect(ok)
    \/ SolDisconnect
    \/ \E address \in SolAddresses, eventTypes \in SolEventTypeInputs :
           SolAddMonitoringTarget(address, eventTypes)
    \/ \E address \in SolAddresses : SolRemoveMonitoringTarget(address)
    \/ SolStartMonitoring
    \/ SolStopMonitoring
    \/ \E supply \in SupplyValues : MintSupplyChanged(supply)
    \/ \E decimals \in MintDecimalsInputs : MintAccountChangeHandled(decimals)

(***************************************************************************)
(* SuiAdapter.subscribeToEvents: the poll the one-second interval starts,  *)
(* tick by tick, and the processedEvents set.                              *)
(***************************************************************************)
\* Ticks the interval starts in one run, and ticks in flight at one time
\* (the interval does not wait for the tick before).
MaxSuiPolls == 3
MaxOverlap == 2
\* processedEvents.size > 10000 clears the set; the ceiling is scaled down
\* to the three events of the model.
ProcessedEventsCeiling == 2

\* What queryEvents returns for the filters createEventFilters built: the
\* query carries no cursor, so every poll gets the same page, and e1
\* matches both filters.
SuiFilterCount == 2
SuiQueryEvents(filter) ==
    IF filter = 1 THEN <<"e1", "e2">> ELSE <<"e1", "e3">>

\* txDigest + eventSeq of the event.
SuiEventKey(event) == event

IdleSuiPoll ==
    [processedEvents |-> {},
     ticks           |-> {},
     started         |-> 0,
     sizeAfterPoll   |-> <<>>]

\* The end of a tick: lastProcessedCheckpoint is assigned, and the set is
\* cleared when it grew over the ceiling.
SuiTickFinishes(p, tick) ==
    LET kept == IF Cardinality(p.processedEvents) > ProcessedEventsCeiling
                THEN {}
                ELSE p.processedEvents
    IN  [p EXCEPT !.ticks = {t \in @ : t.id # tick.id},
                  !.processedEvents = kept,
                  !.sizeAfterPoll = <<Cardinality(kept)>>]

\* The loops of subscribeToEvents up to the next await: events whose key
\* the set has are skipped; the first other one goes to processEvent; an
\* exhausted page leads to the query of the next filter, the last page to
\* the end of the tick.
RECURSIVE SuiRunsOn(_, _)
SuiRunsOn(p, tick) ==
    IF tick.batch = <<>>
    THEN IF tick.filter < SuiFilterCount
         THEN [p EXCEPT !.ticks = {t \in @ : t.id # tick.id} \cup
                  {[tick EXCEPT !.pc = "queryEvents", !.filter = @ + 1]}]
         ELSE SuiTickFinishes(p, tick)
    ELSE IF SuiEventKey(Head(tick.batch)) \in p.processedEvents
         THEN SuiRunsOn(p, [tick EXCEPT !.batch = Tail(@)])
         ELSE [p EXCEPT !.ticks = {t \in @ : t.id # tick.id} \cup
                  {[tick EXCEPT !.pc = "processEvent"]}]

\* setInterval's callback.
SuiTimerFires ==
    /\ suiPoll.started < MaxSuiPolls
    /\ Cardinality(suiPoll.ticks) < MaxOverlap
    /\ suiPoll' = [suiPoll EXCEPT
           !.started = @ + 1,
           !.ticks = @ \cup {[id |-> suiPoll.started + 1,
                              pc |-> "getCurrentBlockNumber",
                              filter |-> 0, batch |-> <<>>]}]
    /\ UNCHANGED suiEmits
    /\ UNCHANGED <<pipeVars, mgrVars, retryVars, regVars, registerVars, adVars, facadeVars, wrapperVars, eventVars, solVars, pollVars, configVars, ruleVars, contractVars, redisVars, orderVars, reconnVars, lifeVars, gateVars>>

\* getCurrentBlockNumber settles: a failure ends the tick in the outer
\* catch, without the cleanup.
SuiCheckpointSettles(ok) ==
    \E tick \in suiPoll.ticks :
        /\ tick.pc = "getCurrentBlockNumber"
        /\ suiPoll' =
               IF ok
               THEN [suiPoll EXCEPT !.ticks = (@ \ {tick}) \cup
                        {[tick EXCEPT !.pc = "queryEvents", !.filter = 1]}]
               ELSE [suiPoll EXCEPT !.ticks = @ \ {tick}]
        /\ UNCHANGED suiEmits
        /\ UNCHANGED <<pipeVars, mgrVars, retryVars, regVars, registerVars, adVars, facadeVars, wrapperVars, eventVars, solVars, pollVars, configVars, ruleVars, contractVars, redisVars, orderVars, reconnVars, lifeVars, gateVars>>

\* queryEvents settles: a failure is caught per filter and the loop goes on
\* with the next filter.
SuiQuerySettles(ok) ==
    \E tick \in suiPoll.ticks :
        /\ tick.pc = "queryEvents"
        /\ suiPoll' = SuiRunsOn(suiPoll,
               [tick EXCEPT !.batch = IF ok THEN SuiQueryEvents(tick.filter)
                                      ELSE <<>>])
        /\ UNCHANGED suiEmits
        /\ UNCHANGED <<pipeVars, mgrVars, retryVars, regVars, registerVars, adVars, facadeVars, wrapperVars, eventVars, solVars, pollVars, configVars, ruleVars, contractVars, redisVars, orderVars, reconnVars, lifeVars, gateVars>>

\* processEvent after its await of parseEventToBlockchainEvent: the emit.
\* held tells whether the key was in the set at that moment.
SuiEventEmitted ==
    \E tick \in suiPoll.ticks :
        /\ tick.pc = "processEvent"
        /\ suiEmits' = suiEmits \cup
               {[event |-> Head(tick.batch), tick |-> tick.id,
                 held |-> SuiEventKey(Head(tick.batch))
                              \in suiPoll.processedEvents]}
        /\ suiPoll' = [suiPoll EXCEPT !.ticks = (@ \ {tick}) \cup
               {[tick EXCEPT !.pc = "processed"]}]
        /\ UNCHANGED <<pipeVars, mgrVars, retryVars, regVars, registerVars, adVars, facadeVars, wrapperVars, eventVars, solVars, pollVars, configVars, ruleVars, contractVars, redisVars, orderVars, reconnVars, lifeVars, gateVars>>

\* The await of processEvent is over: processedEvents.add, and on with the
\* loop.
SuiEventRecorded ==
    \E tick \in suiPoll.ticks :
        /\ tick.pc = "processed"
        /\ suiPoll' = SuiRunsOn(
               [suiPoll EXCEPT !.processedEvents =
                    @ \cup {SuiEventKey(Head(tick.batch))}],
               [tick EXCEPT !.batch = Tail(@)])
        /\ UNCHANGED suiEmits
        /\ UNCHANGED <<pipeVars, mgrVars, retryVars, regVars, registerVars, adVars, facadeVars, wrapperVars, eventVars, solVars, pollVars, configVars, ruleVars, contractVars, redisVars, orderVars, reconnVars, lifeVars, gateVars>>

SuiPollNext ==
    \/ SuiTimerFires
    \/ \E ok \in BOOLEAN : SuiCheckpointSettles(ok)
    \/ \E ok \in BOOLEAN : SuiQuerySettles(ok)
    \/ SuiEventEmitted
    \/ SuiEventRecorded

(***************************************************************************)
(* BitcoinAdapter and TronAdapter: what one poll tick fetches and emits.   *)
(***************************************************************************)
\* Poll ticks of each adapter in one run.
MaxPollTicks == 3

\* The monitored Bitcoin address and the transactions the API can list for
\* it: vin carries the prevout of each input.
BtcTarget == "A"
BtcTransactions ==
    [incoming |-> [vin  |-> <<[address |-> "B", value |-> 7]>>,
                   vout |-> <<[address |-> "A", value |-> 5]>>],
     outgoing |-> [vin  |-> <<[address |-> "A", value |-> 5]>>,
                   vout |-> <<[address |-> "B", value |-> 3],
                              [address |-> "A", value |-> 1]>>],
     joint    |-> [vin  |-> <<[address |-> "A", value |-> 1],
                              [address |-> "B", value |-> 9]>>,
                   vout |-> <<[address |-> "A", value |-> 5],
                              [address |-> "B", value |-> 4]>>],
     foreign  |-> [vin  |-> <<[address |-> "B", value |-> 2]>>,
                   vout |-> <<[address |-> "C", value |-> 1]>>]]
BtcTxIds == DOMAIN BtcTransactions

\* transactions.slice(0, 10)
BtcRecentLimit == 10
BtcRecent(txs) ==
    SubSeq(txs, 1, IF Len(txs) < BtcRecentLimit THEN Len(txs)
                   ELSE BtcRecentLimit)

IsTransactionRelevant(tx, address) ==
    \/ \E i \in DOMAIN tx.vin : tx.vin[i].address = address
    \/ \E i \in DOMAIN tx.vout : tx.vout[i].address = address

\* The loop over tx.vout: amount += output.value; isIncoming = true.
RECURSIVE AfterOutputs(_, _, _)
AfterOutputs(outputs, address, acc) ==
    IF outputs = <<>> THEN acc
    ELSE AfterOutputs(Tail(outputs), address,
             IF Head(outputs).address = address
             THEN [amount |-> acc.amount + Head(outputs).value,
                   isIncoming |-> TRUE]
             ELSE acc)

\* The loop over tx.vin: amount -= input.prevout.value; isIncoming = false.
RECURSIVE AfterInputs(_, _, _)
AfterInputs(inputs, address, acc) ==
    IF inputs = <<>> THEN acc
    ELSE AfterInputs(Tail(inputs), address,
             IF Head(inputs).address = address
             THEN [amount |-> acc.amount - Head(inputs).value,
                   isIncoming |-> FALSE]
             ELSE acc)

MathAbs(n) == IF n < 0 THEN 0 - n ELSE n

BtcParseTransactionToEvent(txid, address) ==
    LET tx  == BtcTransactions[txid]
        net == AfterInputs(tx.vin, address,
                   AfterOutputs(tx.vout, address,
                       [amount |-> 0, isIncoming |-> FALSE]))
    IN  [id         |-> <<"bitcoin", txid>>,
         tx         |-> txid,
         eventType  |-> "native_transfer",
         amount     |-> MathAbs(net.amount),
         isIncoming |-> net.isIncoming]

\* The events of one poll of the address, stamped with the number of the
\* poll.
BtcPollEmissions(txs, poll) ==
    {[event |-> BtcParseTransactionToEvent(txs[i], BtcTarget), poll |-> poll] :
        i \in {j \in DOMAIN txs :
                  IsTransactionRelevant(BtcTransactions[txs[j]], BtcTarget)}}

IdleBitcoinPoll == [txs |-> <<>>, polls |-> 0]

\* A transaction reaches the API's list for the address, newest first.
BtcTransactionAppears(txid) ==
    /\ \A i \in DOMAIN btcPoll.txs : btcPoll.txs[i] # txid
    /\ btcPoll' = [btcPoll EXCEPT !.txs = <<txid>> \o @]
    /\ UNCHANGED <<btcEmits, tronPoll, tronEmits, configVars, ruleVars, contractVars, redisVars, orderVars, reconnVars, lifeVars, gateVars>>
    /\ UNCHANGED <<pipeVars, mgrVars, retryVars, regVars, registerVars, adVars, facadeVars, wrapperVars, eventVars, solVars, suiVars, configVars, ruleVars, contractVars, redisVars, orderVars, reconnVars, lifeVars, gateVars>>

\* checkForNewTransactions for the one target: the GET, and on success
\* processTransaction for the first ten of the list.
BtcPollFires(ok) ==
    /\ btcPoll.polls < MaxPollTicks
    /\ btcPoll' = [btcPoll EXCEPT !.polls = @ + 1]
    /\ btcEmits' =
           IF ok
           THEN btcEmits \cup
                    BtcPollEmissions(BtcRecent(btcPoll.txs), btcPoll.polls + 1)
           ELSE btcEmits
    /\ UNCHANGED <<tronPoll, tronEmits, configVars, ruleVars, contractVars, redisVars, orderVars, reconnVars, lifeVars, gateVars>>
    /\ UNCHANGED <<pipeVars, mgrVars, retryVars, regVars, registerVars, adVars, facadeVars, wrapperVars, eventVars, solVars, suiVars, configVars, ruleVars, contractVars, redisVars, orderVars, reconnVars, lifeVars, gateVars>>

\* tronConfig.pollingInterval || 5000, and the window of the query:
\* sinceTimestamp = Date.now() - 60000.
TronPollingInterval == 5000
TronWindow == 60000
TronEventIds == {"ev1", "ev2"}

IdleTronPoll == [now |-> 0, events |-> {}, polls |-> 0]

\* getEventsByContractAddress(address, {sinceTimestamp}).
TronEventsSince(events, sinceTimestamp) ==
    {e \in events : e.block_timestamp >= sinceTimestamp}

\* The contract emits an event in a block of the present time.
TronEventAppears(id) ==
    /\ \A e \in tronPoll.events : e.id # id
    /\ tronPoll' = [tronPoll EXCEPT
           !.events = @ \cup {[id |-> id, block_timestamp |-> tronPoll.now]}]
    /\ UNCHANGED <<btcPoll, btcEmits, tronEmits, configVars, ruleVars, contractVars, redisVars, orderVars, reconnVars, lifeVars, gateVars>>
    /\ UNCHANGED <<pipeVars, mgrVars, retryVars, regVars, registerVars, adVars, facadeVars, wrapperVars, eventVars, solVars, suiVars, configVars, ruleVars, contractVars, redisVars, orderVars, reconnVars, lifeVars, gateVars>>

\* pollForEvents one interval later, for the one contract target: the
\* query, and on success handleContractEvent for every event it returned.
TronPollFires(ok) ==
    LET dateNow == tronPoll.now + TronPollingInterval
    IN  /\ tronPoll.polls < MaxPollTicks
        /\ tronPoll' = [tronPoll EXCEPT !.now = dateNow, !.polls = @ + 1]
        /\ tronEmits' =
               IF ok
               THEN tronEmits \cup
                        {[event |-> [id |-> <<"tron", e.id, 0>>, tx |-> e.id],
                          poll |-> tronPoll.polls + 1] :
                            e \in TronEventsSince(tronPoll.events,
                                                  dateNow - TronWindow)}
               ELSE tronEmits
        /\ UNCHANGED <<btcPoll, btcEmits, configVars, ruleVars, contractVars, redisVars, orderVars, reconnVars, lifeVars, gateVars>>
        /\ UNCHANGED <<pipeVars, mgrVars, retryVars, regVars, registerVars, adVars, facadeVars, wrapperVars, eventVars, solVars, suiVars, configVars, ruleVars, contractVars, redisVars, orderVars, reconnVars, lifeVars, gateVars>>

PollingNext ==
    \/ \E txid \in BtcTxIds : BtcTransactionAppears(txid)
    \/ \E ok \in BOOLEAN : BtcPollFires(ok)
    \/ \E id \in TronEventIds : TronEventAppears(id)
    \/ \E ok \in BOOLEAN : TronPollFires(ok)

(***************************************************************************)
(* ConfigManager, the registry behind the target configuration resolver,   *)
(* and the facade's enhanced-target methods.  enhancedTargets is the Map   *)
(* of the singleton, keyed by the lower-cased address.                     *)
(***************************************************************************)
ConfigAddresses == {"0xAA", "0xaa", "0xbb"}
ToLowerCase(s) == IF s = "0xAA" THEN "0xaa" ELSE s
ConfigKeys == {ToLowerCase(s) : s \in ConfigAddresses}

\* The view getGlobalConfig builds from the base configuration: one field
\* of each group.
GlobalConfig ==
    [min_amount |-> "0.001",
     batch_size |-> 100,
     channels   |-> {"webhook", "redis"},
     priority   |-> "medium"]

\* EnhancedMonitoringTarget: chains, filters and its fields,
\* notificationChannels and priority are optional.
EnhancedTargetInputs ==
    { [id |-> "t1", address |-> "0xAA", eventTypes |-> <<"transfer">>,
       chains |-> <<>>,
       filters |-> <<[minAmount |-> <<"5">>, batchSize |-> <<>>]>>,
       notificationChannels |-> <<{"webhook"}>>, priority |-> <<"high">>],
      [id |-> "t2", address |-> "0xbb", eventTypes |-> <<"transfer">>,
       chains |-> <<{"ethereum"}>>,
       filters |-> <<[minAmount |-> <<>>, batchSize |-> <<50>>]>>,
       notificationChannels |-> <<>>, priority |-> <<>>],
      [id |-> "0xaa", address |-> "0xaa", eventTypes |-> <<"transfer">>,
       chains |-> <<>>,
       filters |-> <<>>,
       notificationChannels |-> <<{"redis"}>>, priority |-> <<"low">>] }

TargetIdInputs == {t.id : t \in EnhancedTargetInputs}
ResolverChainInputs == Optional({"ethereum", "sui"})

\* Partial<EnhancedMonitoringTarget>: an empty field is not in the patch.
PatchInputs ==
    { [priority |-> <<"low">>, filters |-> <<>>],
      [priority |-> <<>>,
       filters |-> << <<[minAmount |-> <<"9">>, batchSize |-> <<>>]>> >>] }

NoConfigCall ==
    [op |-> "none", id |-> "none", address |-> "none", chain |-> <<>>,
     raised |-> FALSE, view |-> <<>>, target |-> <<>>]

\* a ?? b
Coalesce(a, b) == IF a # <<>> THEN a[1] ELSE b

\* getTargetConfig(contractAddress, chainType) on a registry.
GetTargetConfig(registry, contractAddress, chainType) ==
    LET enhancedTarget == registry[ToLowerCase(contractAddress)]
    IN  IF enhancedTarget = <<>> \/ enhancedTarget[1].filters = <<>>
        THEN GlobalConfig
        ELSE IF /\ chainType # <<>>
                /\ enhancedTarget[1].chains # <<>>
                /\ chainType[1] \notin enhancedTarget[1].chains[1]
        THEN GlobalConfig
        ELSE LET target        == enhancedTarget[1]
                 targetFilters == target.filters[1]
             IN  [min_amount |-> Coalesce(targetFilters.minAmount,
                                          GlobalConfig.min_amount),
                  batch_size |-> Coalesce(targetFilters.batchSize,
                                          GlobalConfig.batch_size),
                  channels   |-> Coalesce(target.notificationChannels,
                                          GlobalConfig.channels),
                  priority   |-> Coalesce(target.priority, "medium")]

\* getEnhancedTarget(address): the lookup by lower-cased key.
GetEnhancedTarget(registry, address) ==
    IF ToLowerCase(address) \in DOMAIN registry
    THEN registry[ToLowerCase(address)]
    ELSE <<>>

\* getAllEnhancedTargets().find(t => t.id === targetId)
FindEnhancedTargetById(registry, targetId) ==
    LET found == {k \in DOMAIN registry :
                     registry[k] # <<>> /\ registry[k][1].id = targetId}
    IN  IF found = {} THEN <<>> ELSE registry[CHOOSE k \in found : TRUE]

\* {...currentTarget, ...updates, id: targetId}
UpdatedTarget(currentTarget, updates, targetId) ==
    [currentTarget EXCEPT
        !.priority = IF updates.priority # <<>> THEN updates.priority ELSE @,
        !.filters  = IF updates.filters # <<>> THEN updates.filters[1] ELSE @,
        !.id       = targetId]

\* The MonitoringTarget the facade hands to the chain adapters.
BasicTarget(target) ==
    [address    |-> [prefix |-> "0x", alphabet |-> "hex", len |-> 40,
                     id |-> target.address],
     eventTypes |-> target.eventTypes]

\* removeMonitoringTarget on every supported chain of targetChains.
FacadeRemove(targets, address, targetChains) ==
    [c \in FacadeChains |->
        IF c \in targetChains
        THEN TargetsDelete(targets[c], BasicTarget([address |-> address,
                                           eventTypes |-> <<>>]).address)
        ELSE targets[c]]

\* ConfigManager.getTargetConfig, called by a filter or a processor.
ResolveTargetConfig(contractAddress, chainType) ==
    /\ lastConfig' = [NoConfigCall EXCEPT
           !.op = "getTargetConfig", !.address = contractAddress,
           !.chain = chainType,
           !.view = <<GetTargetConfig(enhancedTargets, contractAddress,
                                      chainType)>>]
    /\ UNCHANGED <<enhancedTargets, facadeAdded, facadeVars, ruleVars, contractVars, redisVars, orderVars, reconnVars, lifeVars, gateVars>>
    /\ UNCHANGED <<pipeVars, mgrVars, retryVars, regVars, registerVars, adVars, wrapperVars, eventVars, solVars, suiVars, pollVars, ruleVars, contractVars, redisVars, orderVars, reconnVars, lifeVars, gateVars>>

\* ConfigManager.addEnhancedTarget
ConfigAddEnhancedTarget(target) ==
    /\ enhancedTargets' =
           [enhancedTargets EXCEPT ![ToLowerCase(target.address)] = <<target>>]
    /\ lastConfig' = [NoConfigCall EXCEPT
           !.op = "ConfigManager.addEnhancedTarget", !.id = target.id,
           !.address = target.address, !.target = <<target>>]
    /\ UNCHANGED <<facadeAdded, facadeVars, ruleVars, contractVars, redisVars, orderVars, reconnVars, lifeVars, gateVars>>
    /\ UNCHANGED <<pipeVars, mgrVars, retryVars, regVars, registerVars, adVars, wrapperVars, eventVars, solVars, suiVars, pollVars, ruleVars, contractVars, redisVars, orderVars, reconnVars, lifeVars, gateVars>>

\* ConfigManager.removeEnhancedTarget
ConfigRemoveEnhancedTarget(address) ==
    /\ enhancedTargets' =
           [enhancedTargets EXCEPT ![ToLowerCase(address)] = <<>>]
    /\ lastConfig' = [NoConfigCall EXCEPT
           !.op = "ConfigManager.removeEnhancedTarget", !.address = address]
    /\ UNCHANGED <<facadeAdded, facadeVars, ruleVars, contractVars, redisVars, orderVars, reconnVars, lifeVars, gateVars>>
    /\ UNCHANGED <<pipeVars, mgrVars, retryVars, regVars, registerVars, adVars, wrapperVars, eventVars, solVars, suiVars, pollVars, ruleVars, contractVars, redisVars, orderVars, reconnVars, lifeVars, gateVars>>

\* ChainsListener.addEnhancedTarget(target): the basic target goes to the
\* adapters of the target's chains; the registry is not called.
FacadeAddEnhancedTarget(target) ==
    LET done == FacadeAdd("addEnhancedTarget", "enhancedTargetAdded",
                    BasicTarget(target), ChainsOr(target.chains, FacadeChains))
    IN  /\ chainTargets' = done.targets
        /\ lastFacade' = done.last
        /\ facadeAdded' = facadeAdded \cup {target.id}
        /\ lastConfig' = [NoConfigCall EXCEPT
               !.op = "addEnhancedTarget", !.id = target.id,
               !.address = target.address, !.target = <<target>>]
        /\ UNCHANGED enhancedTargets
        /\ UNCHANGED <<pipeVars, mgrVars, retryVars, regVars, registerVars, adVars, wrapperVars, eventVars, solVars, suiVars, pollVars, ruleVars, contractVars, redisVars, orderVars, reconnVars, lifeVars, gateVars>>

\* ChainsListener.removeEnhancedTarget(targetId): the target is looked up
\* by id among the registry's values; without one the call throws.
FacadeRemoveEnhancedTarget(targetId) ==
    LET target == FindEnhancedTargetById(enhancedTargets, targetId)
    IN  /\ IF target = <<>>
           THEN /\ lastConfig' = [NoConfigCall EXCEPT
                       !.op = "removeEnhancedTarget", !.id = targetId,
                       !.raised = TRUE]
                /\ UNCHANGED <<facadeAdded, facadeVars, ruleVars, contractVars, redisVars, orderVars, reconnVars, lifeVars, gateVars>>
           ELSE /\ chainTargets' =
                       FacadeRemove(chainTargets, target[1].address,
                           ChainsOr(target[1].chains, FacadeChains))
                /\ lastFacade' = [NoFacadeCall EXCEPT
                       !.op = "removeEnhancedTarget",
                       !.chains = ChainsOr(target[1].chains, FacadeChains),
                       !.emitted = "enhancedTargetRemoved",
                       !.pre = chainTargets]
                /\ facadeAdded' = facadeAdded \ {targetId}
                /\ lastConfig' = [NoConfigCall EXCEPT
                       !.op = "removeEnhancedTarget", !.id = targetId,
                       !.address = target[1].address, !.target = target]
        /\ UNCHANGED enhancedTargets
        /\ UNCHANGED <<pipeVars, mgrVars, retryVars, regVars, registerVars, adVars, wrapperVars, eventVars, solVars, suiVars, pollVars, ruleVars, contractVars, redisVars, orderVars, reconnVars, lifeVars, gateVars>>

\* ChainsListener.updateEnhancedTarget(targetId, updates): the current
\* target is looked up with getEnhancedTarget(targetId); then
\* removeEnhancedTarget(targetId) and addEnhancedTarget(updatedTarget).
FacadeUpdateEnhancedTarget(targetId, updates) ==
    LET currentTarget == GetEnhancedTarget(enhancedTargets, targetId)
        byId          == FindEnhancedTargetById(enhancedTargets, targetId)
    IN  /\ IF currentTarget = <<>> \/ byId = <<>>
           THEN /\ lastConfig' = [NoConfigCall EXCEPT
                       !.op = "updateEnhancedTarget", !.id = targetId,
                       !.raised = TRUE]
                /\ UNCHANGED <<facadeAdded, facadeVars, ruleVars, contractVars, redisVars, orderVars, reconnVars, lifeVars, gateVars>>
           ELSE LET updatedTarget ==
                        UpdatedTarget(currentTarget[1], updates, targetId)
                    removed ==
                        FacadeRemove(chainTargets, byId[1].address,
                            ChainsOr(byId[1].chains, FacadeChains))
                    chains == ChainsOr(updatedTarget.chains, FacadeChains)
                IN  /\ chainTargets' =
                           [c \in FacadeChains |->
                               IF c \in chains \ RejectingChains(
                                      chains, BasicTarget(updatedTarget))
                               THEN TargetsSet(removed[c],
                                               BasicTarget(updatedTarget))
                               ELSE removed[c]]
                    /\ lastFacade' = [NoFacadeCall EXCEPT
                           !.op = "updateEnhancedTarget",
                           !.chains = chains,
                           !.emitted = "enhancedTargetUpdated",
                           !.pre = chainTargets]
                    /\ facadeAdded' = facadeAdded \cup {targetId}
                    /\ lastConfig' = [NoConfigCall EXCEPT
                           !.op = "updateEnhancedTarget", !.id = targetId,
                           !.address = updatedTarget.address,
                           !.target = <<updatedTarget>>]
        /\ UNCHANGED enhancedTargets
        /\ UNCHANGED <<pipeVars, mgrVars, retryVars, regVars, registerVars, adVars, wrapperVars, eventVars, solVars, suiVars, pollVars, ruleVars, contractVars, redisVars, orderVars, reconnVars, lifeVars, gateVars>>

ConfigNext ==
    \/ \E a \in ConfigAddresses, c \in ResolverChainInputs :
           ResolveTargetConfig(a, c)
    \/ \E t \in EnhancedTargetInputs : ConfigAddEnhancedTarget(t)
    \/ \E a \in ConfigAddresses : ConfigRemoveEnhancedTarget(a)
    \/ \E t \in EnhancedTargetInputs : FacadeAddEnhancedTarget(t)
    \/ \E id \in TargetIdInputs : FacadeRemoveEnhancedTarget(id)
    \/ \E id \in TargetIdInputs, updates \in PatchInputs :
           FacadeUpdateEnhancedTarget(id, updates)

(***************************************************************************)
(* CustomRulesFilter (events/filters/index.ts).  A JavaScript value is a   *)
(* record with its type; a string is the sequence of its characters; a     *)
(* rule's field is the sequence of its parts between the dots.             *)
(***************************************************************************)
JsString(chars) == [t |-> "string", s |-> chars, n |-> 0]
JsNumber(n) == [t |-> "number", s |-> <<>>, n |-> n]
JsUndefined == [t |-> "undefined", s |-> <<>>, n |-> 0]

DigitChars == <<"0", "1", "2", "3", "4", "5", "6", "7", "8", "9">>
DigitOf(c) == (CHOOSE i \in DOMAIN DigitChars : DigitChars[i] = c) - 1
IsDigit(c) == \E i \in DOMAIN DigitChars : DigitChars[i] = c

RECURSIVE DigitsValue(_)
DigitsValue(chars) ==
    IF chars = <<>> THEN 0
    ELSE 10 * DigitsValue(SubSeq(chars, 1, Len(chars) - 1))
         + DigitOf(chars[Len(chars)])

RECURSIVE NumberChars(_)
NumberChars(n) ==
    IF n < 10 THEN <<DigitChars[n + 1]>>
    ELSE NumberChars(n \div 10) \o <<DigitChars[(n % 10) + 1]>>

\* Number(v): <<>> stands for NaN.
ToNumber(v) ==
    CASE v.t = "number" -> <<v.n>>
      [] v.t = "string" ->
            IF \A i \in DOMAIN v.s : IsDigit(v.s[i])
            THEN <<DigitsValue(v.s)>> ELSE <<>>
      [] OTHER -> <<>>

\* String(v)
ToChars(v) == IF v.t = "number" THEN NumberChars(v.n) ELSE v.s

LowerChar(c) == CASE c = "A" -> "a" [] c = "B" -> "b" [] OTHER -> c
LowerChars(chars) == [i \in DOMAIN chars |-> LowerChar(chars[i])]

Includes(hay, needle) ==
    \E i \in 0..(Len(hay) - Len(needle)) :
        SubSeq(hay, i + 1, i + Len(needle)) = needle

\* new RegExp(pattern) for the patterns of the model: "[" does not
\* compile, every other one is a literal.
RegexCompiles(pattern) == \A i \in DOMAIN pattern : pattern[i] # "["

\* One case of the switch of getFieldValue; metadata is not among them.
TopLevelFieldValue(event, name) ==
    CASE name = "from" -> event.from
      [] name = "amount" -> event.amount
      [] name = "tokenAddress" -> event.tokenAddress
      [] name = "blockNumber" -> event.blockNumber
      [] OTHER -> JsUndefined

\* getFieldValue: a dotted field asks getFieldValue for its parent and
\* reads the child only from a parent that is an object.
GetFieldValue(event, field) ==
    IF Len(field) = 1 THEN TopLevelFieldValue(event, field[1])
    ELSE LET parentValue == TopLevelFieldValue(event, field[1])
         IN  IF parentValue.t = "object" THEN event.metadata[field[2]]
             ELSE JsUndefined

\* The switch of applyCustomRule on a field value that is defined.
OperatorHolds(operator, fieldValue, value) ==
    CASE operator = "equals" -> fieldValue = value
      [] operator = "not_equals" -> fieldValue # value
      [] operator = "greater_than" ->
            /\ ToNumber(fieldValue) # <<>> /\ ToNumber(value) # <<>>
            /\ ToNumber(fieldValue)[1] > ToNumber(value)[1]
      [] operator = "less_than" ->
            /\ ToNumber(fieldValue) # <<>> /\ ToNumber(value) # <<>>
            /\ ToNumber(fieldValue)[1] < ToNumber(value)[1]
      [] operator = "contains" ->
            Includes(LowerChars(ToChars(fieldValue)), LowerChars(ToChars(value)))
      [] operator = "regex" ->
            /\ RegexCompiles(ToChars(value))
            /\ Includes(ToChars(fieldValue), ToChars(value))
      [] OTHER -> TRUE

ApplyCustomRule(event, rule) ==
    LET fieldValue == GetFieldValue(event, rule.field)
    IN  IF fieldValue = JsUndefined THEN TRUE
        ELSE OperatorHolds(rule.operator, fieldValue, rule.value)

\* CustomRulesFilter.apply: customRules is what the registry holds for the
\* event's contract address, <<>> when it holds no rules for it.
CustomRulesFilterApply(event, customRules) ==
    IF event.tokenAddress = JsUndefined THEN TRUE
    ELSE IF customRules = <<>> THEN TRUE
    ELSE \A i \in DOMAIN customRules[1] :
             ApplyCustomRule(event, customRules[1][i])

RuleEventInputs ==
    { [from |-> f, amount |-> a, tokenAddress |-> ta,
       blockNumber |-> JsNumber(5), metadata |-> [k |-> m]] :
        f \in {JsString(<<"A", "b">>), JsString(<<"c">>)},
        a \in {JsString(<<"1", "2">>), JsString(<<"x">>), JsUndefined},
        ta \in {JsString(<<"t">>), JsUndefined},
        m \in {JsString(<<"v">>), JsString(<<"w">>), JsUndefined} }

RuleInputs ==
    { [field |-> <<"from">>, operator |-> "equals", value |-> JsString(<<"A", "b">>)],
      [field |-> <<"from">>, operator |-> "contains", value |-> JsString(<<"B">>)],
      [field |-> <<"from">>, operator |-> "regex", value |-> JsString(<<"[">>)],
      [field |-> <<"amount">>, operator |-> "greater_than", value |-> JsNumber(3)],
      [field |-> <<"blockNumber">>, operator |-> "less_than", value |-> JsString(<<"7">>)],
      [field |-> <<"blockNumber">>, operator |-> "not_equals", value |-> JsString(<<"5">>)],
      [field |-> <<"tokenId">>, operator |-> "equals", value |-> JsNumber(1)],
      [field |-> <<"from">>, operator |-> "starts_with", value |-> JsString(<<"z">>)],
      [field |-> <<"metadata", "k">>, operator |-> "equals", value |-> JsString(<<"v">>)] }

CustomRulesInputs ==
    {<<>>} \cup {<< <<r>> >> : r \in RuleInputs}
           \cup {<< <<r1, r2>> >> : r1 \in RuleInputs, r2 \in RuleInputs}

NoRuleCall == [called |-> FALSE, event |-> <<>>, customRules |-> <<>>,
               passed |-> TRUE]

\* The pipeline asks the filter about an event.
CustomRulesFilterCalled(event, customRules) ==
    /\ ~ruleCall.called
    /\ ruleCall' = [called |-> TRUE, event |-> <<event>>,
                    customRules |-> customRules,
                    passed |-> CustomRulesFilterApply(event, customRules)]
    /\ UNCHANGED <<pipeVars, mgrVars, retryVars, regVars, registerVars, adVars, facadeVars, wrapperVars, eventVars, solVars, suiVars, pollVars, configVars, contractVars, redisVars, orderVars, reconnVars, lifeVars, gateVars>>

RulesNext ==
    \E event \in RuleEventInputs, customRules \in CustomRulesInputs :
        CustomRulesFilterCalled(event, customRules)

(***************************************************************************)
(* EVMChainAdapter: the listeners setupTargetListener registers for one    *)
(* contract target, and what they emit for the logs of that contract.      *)
(***************************************************************************)
\* ERC20_MINT_TOPICS: Mint(address,uint256) and the second entry of the
\* list; neither is the Transfer topic.
Erc20MintTopics == {"Mint", "MintTopic2"}

\* Logs of the monitored contract, by topic0 and by whether topics[1] is
\* the zero word.
ContractLogs ==
    { [id |-> "mintTransfer", topic |-> "Transfer", fromZero |-> TRUE],
      [id |-> "transfer", topic |-> "Transfer", fromZero |-> FALSE],
      [id |-> "mint", topic |-> "Mint", fromZero |-> FALSE],
      [id |-> "mint2", topic |-> "MintTopic2", fromZero |-> FALSE],
      [id |-> "approval", topic |-> "Approval", fromZero |-> FALSE] }

ContractEventTypeInputs ==
    { {"transfer"}, {"token_mint"}, {"transfer", "token_mint"}, {"nft_mint"} }

\* setupTargetListener for target.type = "contract": each listener is the
\* topics of its filter and its handler.
ContractListeners(eventTypes) ==
    (IF eventTypes \cap {"transfer", "native_transfer"} # {}
     THEN {[topic |-> "Transfer", fromZeroOnly |-> FALSE,
            handler |-> "handleTransferEvent"]}
     ELSE {})
    \cup
    (IF eventTypes \cap {"token_mint", "nft_mint"} # {}
     THEN {[topic |-> t, fromZeroOnly |-> FALSE,
            handler |-> "handleMintingEvent"] : t \in Erc20MintTopics}
          \cup {[topic |-> "Transfer", fromZeroOnly |-> TRUE,
                 handler |-> "handleMintingEvent"]}
     ELSE {})

ListenerFilterMatches(listener, log) ==
    /\ log.topic = listener.topic
    /\ listener.fromZeroOnly => log.fromZero

\* decodeTransferLog gives a result
DecodeTransferLog(log) == log.topic = "Transfer"

\* decodeMintLog gives a result
DecodeMintLog(log) == log.topic = "Transfer" /\ log.fromZero

\* What a listener emits for a log it was handed: the events, none when
\* the decoder returned null.
ListenerEmits(listener, log) ==
    IF listener.handler = "handleTransferEvent"
    THEN IF DecodeTransferLog(log)
         THEN {[log |-> log.id, eventType |-> "transfer",
                id |-> GenerateEventId("ethereum", log.id, <<0>>),
                listener |-> listener]}
         ELSE {}
    ELSE IF DecodeMintLog(log)
         THEN {[log |-> log.id, eventType |-> "token_mint",
                id |-> GenerateEventId("ethereum", log.id, <<0>>),
                listener |-> listener]}
         ELSE {}

NoContractTarget == [eventTypes |-> {}, listeners |-> {}, delivered |-> {}]

\* startMonitoring with the contract target in monitoringTargets.
ContractTargetSetUp(eventTypes) ==
    /\ contractTarget.eventTypes = {}
    /\ contractTarget' = [contractTarget EXCEPT
           !.eventTypes = eventTypes,
           !.listeners = ContractListeners(eventTypes)]
    /\ UNCHANGED contractEmits
    /\ UNCHANGED <<pipeVars, mgrVars, retryVars, regVars, registerVars, adVars, facadeVars, wrapperVars, eventVars, solVars, suiVars, pollVars, configVars, ruleVars, redisVars, orderVars, reconnVars, lifeVars, gateVars>>

\* The provider sees a log of the contract and calls every listener whose
\* filter matches it.
ContractLogSeen(log) ==
    /\ contractTarget.eventTypes # {}
    /\ log.id \notin contractTarget.delivered
    /\ contractTarget' = [contractTarget EXCEPT !.delivered = @ \cup {log.id}]
    /\ contractEmits' = contractEmits \cup
           UNION {ListenerEmits(listener, log) :
                     listener \in {l \in contractTarget.listeners :
                                      ListenerFilterMatches(l, log)}}
    /\ UNCHANGED <<pipeVars, mgrVars, retryVars, regVars, registerVars, adVars, facadeVars, wrapperVars, eventVars, solVars, suiVars, pollVars, configVars, ruleVars, redisVars, orderVars, reconnVars, lifeVars, gateVars>>

ContractNext ==
    \/ \E eventTypes \in ContractEventTypeInputs : ContractTargetSetUp(eventTypes)
    \/ \E log \in ContractLogs : ContractLogSeen(log)

(***************************************************************************)
(* RedisNotifier: notify calls that run side by side.  redis holds the     *)
(* notifier's fields client and isConnected, the clients createClient has  *)
(* made with the state of each, and for every notify call where it stands  *)
(* and the client its pending await belongs to.                            *)
(***************************************************************************)
\* The notify calls that may be in flight together.
MaxRedisCalls == 3
RedisCalls == 1 .. MaxRedisCalls
\* config.maxRetries || 3
RedisMaxRetries == 3

IdleRedisCall == [pc |-> "idle", on |-> 0, attempts |-> 0]

\* client 0 is null; clients is the sequence of the clients made so far.
NewRedisNotifierObject ==
    [client      |-> 0,
     isConnected |-> FALSE,
     clients     |-> <<>>,
     calls       |-> [c \in RedisCalls |-> IdleRedisCall],
     closedInUse |-> FALSE]

ClientIsReady(r) == r.client # 0 /\ r.clients[r.client] = "ready"

\* Another call awaits connect() or publish() of the client.
InUseByOther(r, c, client) ==
    \E d \in RedisCalls \ {c} :
        r.calls[d].pc \in {"connecting", "publishing"} /\ r.calls[d].on = client

\* connect() from createClient on: the new client is stored in the field,
\* and the call awaits its connect().
RedisCreateClient(r, c) ==
    [r EXCEPT !.clients = Append(@, "connecting"),
              !.client = Len(r.clients) + 1,
              !.calls[c] = [@ EXCEPT !.pc = "connecting",
                                     !.on = Len(r.clients) + 1]]

\* publishToRedis of one attempt of retryOperation: it throws without a
\* client or with isConnected false, and awaits client.publish otherwise.
RedisPublishAttempt(r, c) ==
    IF r.client = 0 \/ ~r.isConnected
    THEN IF r.calls[c].attempts + 1 >= RedisMaxRetries
         THEN [r EXCEPT !.calls[c] = [@ EXCEPT !.pc = "failed",
                                               !.attempts = @ + 1]]
         ELSE [r EXCEPT !.calls[c] = [@ EXCEPT !.pc = "sleeping",
                                               !.attempts = @ + 1]]
    ELSE [r EXCEPT !.calls[c] = [@ EXCEPT !.pc = "publishing",
                                          !.on = r.client]]

\* notify(event): ensureConnection, and connect() up to its first await.
RedisNotifyCalled(c) ==
    /\ redis.calls[c].pc = "idle"
    /\ redis' =
           IF redis.isConnected /\ ClientIsReady(redis)
           THEN RedisPublishAttempt(redis, c)
           ELSE IF redis.client # 0
           THEN [redis EXCEPT
                    !.calls[c] = [@ EXCEPT !.pc = "quitting",
                                           !.on = redis.client],
                    !.closedInUse =
                        @ \/ InUseByOther(redis, c, redis.client)]
           ELSE RedisCreateClient(redis, c)
    /\ UNCHANGED <<pipeVars, mgrVars, retryVars, regVars, registerVars, adVars, facadeVars, wrapperVars, eventVars, solVars, suiVars, pollVars, configVars, ruleVars, contractVars, orderVars, reconnVars, lifeVars, gateVars>>

\* client.quit() settles: the client is closed, the finally block clears
\* the fields, and connect() goes on to make its own client.
RedisQuitSettles(c) ==
    /\ redis.calls[c].pc = "quitting"
    /\ redis' = RedisCreateClient(
           [redis EXCEPT !.clients[redis.calls[c].on] = "closed",
                         !.client = 0,
                         !.isConnected = FALSE], c)
    /\ UNCHANGED <<pipeVars, mgrVars, retryVars, regVars, registerVars, adVars, facadeVars, wrapperVars, eventVars, solVars, suiVars, pollVars, configVars, ruleVars, contractVars, orderVars, reconnVars, lifeVars, gateVars>>

\* client.connect() settles.  The server is reachable: an open client
\* gets ready; a client that was quit meanwhile either resolves or rejects.
RedisConnectSettles(c, resolves) ==
    LET mine == redis.calls[c].on
    IN  /\ redis.calls[c].pc = "connecting"
        /\ redis.clients[mine] = "connecting" => resolves
        /\ redis' =
               IF resolves
               THEN RedisPublishAttempt(
                        [redis EXCEPT
                            !.clients[mine] =
                                IF @ = "connecting" THEN "ready" ELSE @,
                            !.isConnected = TRUE], c)
               ELSE [redis EXCEPT !.isConnected = FALSE,
                                  !.calls[c] = [@ EXCEPT !.pc = "failed"]]
        /\ UNCHANGED <<pipeVars, mgrVars, retryVars, regVars, registerVars, adVars, facadeVars, wrapperVars, eventVars, solVars, suiVars, pollVars, configVars, ruleVars, contractVars, orderVars, reconnVars, lifeVars, gateVars>>

\* client.publish() settles: on a ready client it succeeds, on a closed
\* one it rejects and retryOperation counts the attempt; on a client that
\* is still connecting the command waits in the client's queue.
RedisPublishSettles(c) ==
    LET mine == redis.calls[c].on
    IN  /\ redis.calls[c].pc = "publishing"
        /\ redis.clients[mine] # "connecting"
        /\ redis' =
               IF redis.clients[mine] = "ready"
               THEN [redis EXCEPT !.calls[c] = [@ EXCEPT !.pc = "done"]]
               ELSE IF redis.calls[c].attempts + 1 >= RedisMaxRetries
               THEN [redis EXCEPT !.calls[c] = [@ EXCEPT !.pc = "failed",
                                                         !.attempts = @ + 1]]
               ELSE [redis EXCEPT !.calls[c] = [@ EXCEPT !.pc = "sleeping",
                                                         !.attempts = @ + 1]]
        /\ UNCHANGED <<pipeVars, mgrVars, retryVars, regVars, registerVars, adVars, facadeVars, wrapperVars, eventVars, solVars, suiVars, pollVars, configVars, ruleVars, contractVars, orderVars, reconnVars, lifeVars, gateVars>>

\* The sleep of retryOperation is over: the next attempt.
RedisRetryWakes(c) ==
    /\ redis.calls[c].pc = "sleeping"
    /\ redis' = RedisPublishAttempt(redis, c)
    /\ UNCHANGED <<pipeVars, mgrVars, retryVars, regVars, registerVars, adVars, facadeVars, wrapperVars, eventVars, solVars, suiVars, pollVars, configVars, ruleVars, contractVars, orderVars, reconnVars, lifeVars, gateVars>>

RedisNext ==
    \/ \E c \in RedisCalls : RedisNotifyCalled(c)
    \/ \E c \in RedisCalls : RedisQuitSettles(c)
    \/ \E c \in RedisCalls, resolves \in BOOLEAN : RedisConnectSettles(c, resolves)
    \/ \E c \in RedisCalls : RedisPublishSettles(c)
    \/ \E c \in RedisCalls : RedisRetryWakes(c)



(***************************************************************************)
(* ChainManager's "error" listener with several error signals of one       *)
(* adapter.                                                                *)
(***************************************************************************)
\* Error signals whose reconnection has not ended, at most.
MaxErrorSignals == 2

\* adapter.on("error", ...): chainError is emitted, and with auto-reconnect
\* on and the manager running scheduleReconnection sets one more timer.
AdapterErrorListener(c) ==
    /\ adapter[c].provider
    /\ PendingReconnects < MaxErrorSignals
    /\ reconnectTimers' = IF EnableAutoReconnect /\ isRunning
                          THEN ScheduleReconnection(reconnectTimers, c)
                          ELSE reconnectTimers
    /\ UNCHANGED <<pipeVars, retryVars, regVars, registerVars, adVars, facadeVars,
                   isRunning, healthCheckTimer, adapter, startTask, stopTask,
                   drive, rc, stopReturned, starts, now, lastBeat, sweep,
                   wrapperVars, eventVars, solVars, suiVars, pollVars,
                   configVars, ruleVars, contractVars, redisVars, orderVars, reconnVars, lifeVars, gateVars>>

\* The reconnectChain calls of chain c that have not ended.
ReconnectsInProgress(c) ==
    {i \in 1..Len(rc) : rc[i].chain = c /\ rc[i].pc \notin {"done", "failed"}}

ReconnectNext ==
    \/ ManagerStart
    \/ \E c \in Chains : StartGetNetwork(c)
    \/ \E c \in Chains : StartGetBlockNumber(c)
    \/ StartReturns
    \/ \E c \in Chains : AdapterErrorListener(c)
    \/ \E c \in Chains : ReconnectTimerFires(c)
    \/ \E i \in 1..Len(rc) : ReconnectWakes(i)
    \/ \E i \in 1..Len(rc) : ReconnectGetNetwork(i)
    \/ \E i \in 1..Len(rc) : ReconnectGetBlockNumber(i)
    \/ PerformHealthCheck
    \/ Tick

(***************************************************************************)
(* ChainManager.reconnectChain on one adapter: disconnect(), the sleep,    *)
(* connect() and startMonitoring().  reconn holds where the call stands    *)
(* and the targets the adapter held when it began.                         *)
(***************************************************************************)
NoReconnect == [pc |-> "idle", before |-> {}]

\* reconnectChain(chain): adapter.disconnect(), then the sleep begins.  No
\* disconnect() rejects: the Sui adapters catch what theirs throws.
ReconnectChainCalled ==
    /\ reconn.pc = "idle"
    /\ ad' = AfterDisconnect(ad)
    /\ reconn' = [pc |-> "sleep", before |-> ad.targets]
    /\ lastCall' = [op |-> "disconnect", arg |-> <<>>, raised |-> FALSE,
                    emitted |-> IF ad.kind = "sui" THEN "error" ELSE "connectionStatus",
                    steps |-> DisconnectSteps(ad.kind), pre |-> ad]
    /\ UNCHANGED <<pipeVars, mgrVars, retryVars, regVars, registerVars, facadeVars, wrapperVars, eventVars, solVars, suiVars, pollVars, configVars, ruleVars, contractVars, redisVars, orderVars, lifeVars, gateVars>>

\* The sleep is over: adapter.connect() and, when it resolved,
\* adapter.startMonitoring().  A call that throws sends reconnectChain to
\* its catch block; otherwise chainReconnected is emitted.
ReconnectChainWakes(ok) ==
    /\ reconn.pc = "sleep"
    /\ ad.heartbeats < MaxHeartbeats
    /\ ad.polls < MaxPolls
    /\ LET joined == AfterConnect(ad, ok)
           refuses == StartMonitoringRefuses(joined)
       IN  /\ IF ~ok \/ refuses
              THEN ad' = joined
              ELSE \E loaded \in LoadedInputs([joined EXCEPT !.monitoringActive = TRUE],
                                              joined.targets) :
                      ad' = AfterStartMonitoring(joined, loaded)
           /\ reconn' = [reconn EXCEPT !.pc =
                  IF ~ok \/ (refuses /\ ad.kind \notin SuiKinds)
                  THEN "failed" ELSE "done"]
           /\ lastCall' = [op |-> IF ok THEN "startMonitoring" ELSE "connect",
                           arg |-> <<>>,
                           raised |-> ~ok \/ (refuses /\ ad.kind \notin SuiKinds),
                           emitted |-> IF ~ok /\ ad.kind \in SuiKinds
                                       THEN "error" ELSE "none",
                           steps |-> IF ok /\ ~refuses THEN <<"setup">> ELSE <<>>,
                           pre |-> IF ok THEN joined ELSE ad]
    /\ UNCHANGED <<pipeVars, mgrVars, retryVars, regVars, registerVars, facadeVars, wrapperVars, eventVars, solVars, suiVars, pollVars, configVars, ruleVars, contractVars, redisVars, orderVars, lifeVars, gateVars>>

\* What delivers the events of a target: on Bitcoin, Tron and Sui the poll
\* interval (their per-target entries are bookkeeping), on EVM and Solana
\* the target's subscription.
TargetIsWatched(a, address) ==
    IF a.kind \in PollingKinds THEN a.polls = 1 ELSE address \in a.subs

\* The calls on the adapter before the manager reconnects it, and the
\* reconnection.
AdapterReconnectNext ==
    \/ reconn.pc = "idle" /\ AdapterNext
    \/ ReconnectChainCalled
    \/ \E ok \in BOOLEAN : ReconnectChainWakes(ok)

(***************************************************************************)
(* ChainsListener.start and stop over ChainManager.start and stop.  life   *)
(* holds the two isRunning flags, the manager's health timer, where every  *)
(* start() and stop() call of the facade stands, and how the last one of   *)
(* each ended.                                                             *)
(***************************************************************************)
\* Calls of start(), and of stop(), that may be in flight together.
MaxFacadeCalls == 2
FacadeCalls == 1 .. MaxFacadeCalls

NewChainsListener ==
    [facadeRunning    |-> FALSE,
     managerRunning   |-> FALSE,
     healthCheckTimer |-> FALSE,
     start            |-> [k \in FacadeCalls |-> "idle"],
     stop             |-> [k \in FacadeCalls |-> "idle"],
     lastStart        |-> "none",
     lastStop         |-> "none"]

\* start(): it throws when isRunning is set; otherwise it sets isRunning,
\* emits "starting" and awaits setupMonitoringTargets().
FacadeStartCalled(k) ==
    /\ life.start[k] = "idle"
    /\ life' = IF life.facadeRunning
               THEN [life EXCEPT !.lastStart = "raised"]
               ELSE [life EXCEPT !.facadeRunning = TRUE, !.start[k] = "targets"]
    /\ UNCHANGED <<pipeVars, mgrVars, retryVars, regVars, registerVars, adVars, facadeVars, wrapperVars, eventVars, solVars, suiVars, pollVars, configVars, ruleVars, contractVars, redisVars, orderVars, reconnVars, gateVars>>

\* setupMonitoringTargets() settled: chainManager.start() throws when the
\* manager runs, and the catch block clears the facade's isRunning;
\* otherwise the manager sets its isRunning and connects its adapters.
FacadeStartTargetsSettled(k) ==
    /\ life.start[k] = "targets"
    /\ life' = IF life.managerRunning
               THEN [life EXCEPT !.facadeRunning = FALSE, !.start[k] = "idle",
                                 !.lastStart = "raised"]
               ELSE [life EXCEPT !.managerRunning = TRUE, !.start[k] = "manager"]
    /\ UNCHANGED <<pipeVars, mgrVars, retryVars, regVars, registerVars, adVars, facadeVars, wrapperVars, eventVars, solVars, suiVars, pollVars, configVars, ruleVars, contractVars, redisVars, orderVars, reconnVars, gateVars>>

\* chainManager.start() after allSettled: startHealthCheck(), and the
\* facade emits "started".
FacadeStartManagerSettled(k) ==
    /\ life.start[k] = "manager"
    /\ life' = [life EXCEPT !.healthCheckTimer = TRUE, !.start[k] = "idle",
                            !.lastStart = "returned"]
    /\ UNCHANGED <<pipeVars, mgrVars, retryVars, regVars, registerVars, adVars, facadeVars, wrapperVars, eventVars, solVars, suiVars, pollVars, configVars, ruleVars, contractVars, redisVars, orderVars, reconnVars, gateVars>>

\* stop(): it returns when isRunning is clear; otherwise it emits "stopping"
\* and awaits chainManager.stop(), which returns at once when the manager
\* does not run and else clears isRunning and the health timer and
\* disconnects the adapters.
FacadeStopCalled(k) ==
    /\ life.stop[k] = "idle"
    /\ life' = IF ~life.facadeRunning
               THEN [life EXCEPT !.lastStop = "skipped"]
               ELSE IF ~life.managerRunning
               THEN [life EXCEPT !.stop[k] = "manager"]
               ELSE [life EXCEPT !.managerRunning = FALSE,
                                 !.healthCheckTimer = FALSE,
                                 !.stop[k] = "manager"]
    /\ UNCHANGED <<pipeVars, mgrVars, retryVars, regVars, registerVars, adVars, facadeVars, wrapperVars, eventVars, solVars, suiVars, pollVars, configVars, ruleVars, contractVars, redisVars, orderVars, reconnVars, gateVars>>

\* chainManager.stop() settled: cleanupNotifiers() is awaited.
FacadeStopManagerSettled(k) ==
    /\ life.stop[k] = "manager"
    /\ life' = [life EXCEPT !.stop[k] = "notifiers"]
    /\ UNCHANGED <<pipeVars, mgrVars, retryVars, regVars, registerVars, adVars, facadeVars, wrapperVars, eventVars, solVars, suiVars, pollVars, configVars, ruleVars, contractVars, redisVars, orderVars, reconnVars, gateVars>>

\* cleanupNotifiers() settled: isRunning = false; emit("stopped").
FacadeStopNotifiersSettled(k) ==
    /\ life.stop[k] = "notifiers"
    /\ life' = [life EXCEPT !.facadeRunning = FALSE, !.stop[k] = "idle",
                            !.lastStop = "returned"]
    /\ UNCHANGED <<pipeVars, mgrVars, retryVars, regVars, registerVars, adVars, facadeVars, wrapperVars, eventVars, solVars, suiVars, pollVars, configVars, ruleVars, contractVars, redisVars, orderVars, reconnVars, gateVars>>

\* No start() and no stop() of the facade is in progress.
FacadeQuiet ==
    \A k \in FacadeCalls : life.start[k] = "idle" /\ life.stop[k] = "idle"

LifeNext ==
    \E k \in FacadeCalls :
        \/ FacadeStartCalled(k)
        \/ FacadeStartTargetsSettled(k)
        \/ FacadeStartManagerSettled(k)
        \/ FacadeStopCalled(k)
        \/ FacadeStopManagerSettled(k)
        \/ FacadeStopNotifiersSettled(k)

(***************************************************************************)
(* ConfirmationFilter over the events of the adapters.  gate holds the     *)
(* filter's requiredConfirmations, the newest block of the chains and the  *)
(* last event a pipeline with the filter executed, with its outcome.       *)
(***************************************************************************)
\* constructor(requiredConfirmations = 6)
DefaultRequiredConfirmations == 6
\* Values given to setRequiredConfirmations, and the chains' newest block.
MaxRequiredConfirmations == 3
MaxTip == 3

GateChains == {"evm", "solana", "sui", "tron"}

\* The event an adapter builds for something it saw in block (slot,
\* checkpoint) blockNumber while the chain's newest block is tip: the EVM
\* adapter subtracts, the Solana, Sui and Tron adapters write the literal 1.
AdapterEvent(chain, blockNumber, tip) ==
    [chainType |-> chain,
     blockNumber |-> blockNumber,
     confirmed |-> TRUE,
     confirmationCount |-> IF chain = "evm"
                           THEN ConfirmationCount(tip, blockNumber)
                           ELSE 1]

\* A filter that trusts the confirmed flag.
ConfirmationFilterByFlag(event, requiredConfirmations) == event.confirmed

\* ConfirmationFilter.apply(event)
ConfirmationFilterApply(event, requiredConfirmations) ==
    event.confirmationCount >= requiredConfirmations

NoGateEvent == AdapterEvent("evm", 0, 0)

NewConfirmationGate ==
    [requiredConfirmations |-> DefaultRequiredConfirmations,
     tip      |-> 0,
     executed |-> FALSE,
     event    |-> NoGateEvent,
     seenAt   |-> 0,
     required |-> DefaultRequiredConfirmations,
     result   |-> "none",
     notified |-> FALSE]

\* setRequiredConfirmations(count)
SetRequiredConfirmations(count) ==
    /\ gate' = [gate EXCEPT !.requiredConfirmations = count]
    /\ UNCHANGED <<pipeVars, mgrVars, retryVars, regVars, registerVars, adVars, facadeVars, wrapperVars, eventVars, solVars, suiVars, pollVars, configVars, ruleVars, contractVars, redisVars, orderVars, reconnVars, lifeVars>>

\* The chains grow by a block.
GateBlockMined ==
    /\ gate.tip < MaxTip
    /\ gate' = [gate EXCEPT !.tip = @ + 1]
    /\ UNCHANGED <<pipeVars, mgrVars, retryVars, regVars, registerVars, adVars, facadeVars, wrapperVars, eventVars, solVars, suiVars, pollVars, configVars, ruleVars, contractVars, redisVars, orderVars, reconnVars, lifeVars>>

\* An adapter emits an event and the manager runs execute on a pipeline
\* whose one enabled filter is the ConfirmationFilter: a false verdict
\* returns null, otherwise the event is processed and the notifiers are
\* called.
GateEventExecuted(chain, blockNumber) ==
    /\ blockNumber <= gate.tip
    /\ LET event == AdapterEvent(chain, blockNumber, gate.tip)
           passes == FilterPasses(
                        IF ConfirmationFilterApply(event, gate.requiredConfirmations)
                        THEN "true" ELSE "false")
       IN  gate' = [gate EXCEPT !.executed = TRUE,
                                !.event = event,
                                !.seenAt = gate.tip,
                                !.required = gate.requiredConfirmations,
                                !.result = IF passes THEN "processed" ELSE "none",
                                !.notified = passes]
    /\ UNCHANGED <<pipeVars, mgrVars, retryVars, regVars, registerVars, adVars, facadeVars, wrapperVars, eventVars, solVars, suiVars, pollVars, configVars, ruleVars, contractVars, redisVars, orderVars, reconnVars, lifeVars>>

GateNext ==
    \/ \E count \in 1..MaxRequiredConfirmations : SetRequiredConfirmations(count)
    \/ GateBlockMined
    \/ \E chain \in GateChains, blockNumber \in 0..MaxTip :
          GateEventExecuted(chain, blockNumber)

(***************************************************************************)
(* Specifications.                                                         *)
(***************************************************************************)
\* new ChainsListener(...): a pipeline built by the factory, no event yet, and
\* new ChainManager(...) with the adapters of setupChainAdapters registered.
Constructed(filterSetups, enricherSetups, processorSetups, notifierSetups, adapterKinds) ==
    /\ filters \in filterSetups
    /\ enrichers \in enricherSetups
    /\ processors \in processorSetups
    /\ notifiers \in notifierSetups
    /\ exec = [e \in Events |-> IdleExec]
    /\ executeCalls = [e \in Events |-> 0]
    /\ mgrSignals = [e \in Events |-> <<>>]
    /\ stats = [totalEvents |-> 0, processedEvents |-> 0, failedEvents |-> 0]
    /\ isRunning = FALSE
    /\ healthCheckTimer = FALSE
    /\ adapter = [c \in Chains |-> NewAdapter]
    /\ startTask = [active |-> FALSE, result |-> "none",
                    pc |-> [c \in Chains |-> "idle"]]
    /\ stopTask = [active |-> FALSE, pc |-> [c \in Chains |-> "idle"]]
    /\ drive = [c \in Chains |-> <<>>]
    /\ reconnectTimers = [c \in Chains |-> 0]
    /\ rc = <<>>
    /\ stopReturned = FALSE
    /\ starts = 0
    /\ now = 0
    /\ lastBeat = [c \in Chains |-> 0]
    /\ sweep = [c \in Chains |-> [overdue |-> FALSE, scheduled |-> FALSE]]
    /\ retry = BaseEventNotifier("webhook_notifier")
    /\ lastAdd = NoAdd
    /\ adapters = <<>>
    /\ listeners = [a \in AdapterObjects |-> 0]
    /\ lastRegister = NoRegister
    /\ ad \in {NewChainAdapter(kind) : kind \in adapterKinds}
    /\ lastCall = NoCallYet
    /\ chainTargets = [c \in FacadeChains |-> {}]
    /\ lastFacade = NoFacadeCall
    /\ wrapper = IdleWrapper
    /\ chainHead = 0
    /\ currentBlockNumber = 0
    /\ parsing = {}
    /\ emitted = {}
    /\ sol = NewSolanaAdapter
    /\ lastSol = NoSolanaCall
    /\ mintSupply = 0
    /\ suiPoll = IdleSuiPoll
    /\ suiEmits = {}
    /\ btcPoll = IdleBitcoinPoll
    /\ btcEmits = {}
    /\ tronPoll = IdleTronPoll
    /\ tronEmits = {}
    /\ enhancedTargets = [k \in ConfigKeys |-> <<>>]
    /\ facadeAdded = {}
    /\ lastConfig = NoConfigCall
    /\ ruleCall = NoRuleCall
    /\ contractTarget = NoContractTarget
    /\ contractEmits = {}
    /\ redis = NewRedisNotifierObject
    /\ emitLog = <<>>
    /\ processedLog = <<>>
    /\ reconn = NoReconnect
    /\ life = NewChainsListener
    /\ gate = NewConfirmationGate

\* The pipeline, the manager's event listener and the facade's counters.
SpecPipe == Constructed(FilterSetups, {<<>>}, {<<>>}, NotifierSetups, {"evm"}) /\ [][PipeNext]_vars

MgrNext ==
    \/ ManagerStart
    \/ \E c \in Chains : StartGetNetwork(c)
    \/ \E c \in Chains : StartGetBlockNumber(c)
    \/ StartReturns
    \/ ManagerStop
    \/ \E c \in Chains : StopDisconnect(c)
    \/ StopReturns
    \/ \E c \in Chains : HeartbeatFires(c)
    \/ \E c \in Chains : ReconnectTimerFires(c)
    \/ \E i \in 1..Len(rc) : ReconnectWakes(i)
    \/ \E i \in 1..Len(rc) : ReconnectGetNetwork(i)
    \/ \E i \in 1..Len(rc) : ReconnectGetBlockNumber(i)
    \/ PerformHealthCheck

\* The manager's lifecycle: start, stop, heartbeats, reconnections.
SpecMgr == Constructed({<<>>}, {<<>>}, {<<>>}, {<<>>}, {"evm"}) /\ [][MgrNext]_vars

HealthNext ==
    \/ ManagerStart
    \/ \E c \in Chains : StartGetNetwork(c)
    \/ \E c \in Chains : StartGetBlockNumber(c)
    \/ StartReturns
    \/ \E c \in Chains : HeartbeatFires(c)
    \/ \E c \in Chains : ReconnectTimerFires(c)
    \/ \E i \in 1..Len(rc) : ReconnectWakes(i)
    \/ \E i \in 1..Len(rc) : ReconnectGetNetwork(i)
    \/ \E i \in 1..Len(rc) : ReconnectGetBlockNumber(i)
    \/ PerformHealthCheck
    \/ Tick

\* A started manager as time passes: heartbeats, health sweeps, reconnections.
SpecHealth == Constructed({<<>>}, {<<>>}, {<<>>}, {<<>>}, {"evm"}) /\ [][HealthNext]_vars

\* One notifier: construction, reconfiguration and notify() with its retries.
SpecRetry == Constructed({<<>>}, {<<>>}, {<<>>}, {<<>>}, {"evm"}) /\ [][RetryNext]_vars

\* A custom pipeline with enrichers and processors and the events it handles.
SpecCustomPipe ==
    /\ Constructed({<<NewFilter("address_filter", TRUE)>>}, EnricherSetups,
                   ProcessorSetups,
                   {<<NewNotifier("webhook_notifier", TRUE)>>}, {"evm"})
    /\ [][PipeNext]_vars

\* A new ChainManager and the register / unregister calls on it.
SpecRegister == Constructed({<<>>}, {<<>>}, {<<>>}, {<<>>}, {"evm"}) /\ [][RegisterNext]_vars

\* A new EventPipeline() and the calls that fill and empty its registries.
SpecRegistry == Constructed({<<>>}, {<<>>}, {<<>>}, {<<>>}, {"evm"}) /\ [][RegistryNext]_vars

\* A new adapter of each chain and the calls and timer callbacks on it.
SpecAdapter == Constructed({<<>>}, {<<>>}, {<<>>}, {<<>>}, AdapterKinds) /\ [][AdapterNext]_vars

\* A listener with its adapters registered and the facade's add calls.
SpecFacade == Constructed({<<>>}, {<<>>}, {<<>>}, {<<>>}, {"evm"}) /\ [][FacadeNext]_vars

\* One call of an adapter's retry wrapper.
SpecWrapper == Constructed({<<>>}, {<<>>}, {<<>>}, {<<>>}, {"evm"}) /\ [][WrapperNext]_vars

\* A monitoring EVM adapter and a monitoring Solana adapter and what the
\* chains deliver to them.
SpecEvents == Constructed({<<>>}, {<<>>}, {<<>>}, {<<>>}, {"evm"}) /\ [][EventsNext]_vars

\* One Solana adapter, its callers and the mint account it watches.
SpecSolana == Constructed({<<>>}, {<<>>}, {<<>>}, {<<>>}, {"evm"}) /\ [][SolanaNext]_vars

\* A monitoring Sui adapter whose interval keeps firing.
SpecSuiPoll == Constructed({<<>>}, {<<>>}, {<<>>}, {<<>>}, {"evm"}) /\ [][SuiPollNext]_vars

\* A monitoring Bitcoin adapter and a monitoring Tron adapter, their poll
\* timers and the remote APIs.
SpecPolling == Constructed({<<>>}, {<<>>}, {<<>>}, {<<>>}, {"evm"}) /\ [][PollingNext]_vars

\* The resolver registry, its callers and the facade's enhanced-target
\* methods.
SpecConfig == Constructed({<<>>}, {<<>>}, {<<>>}, {<<>>}, {"evm"}) /\ [][ConfigNext]_vars

\* The custom-rules filter asked about events, rule list by rule list.
SpecRules == Constructed({<<>>}, {<<>>}, {<<>>}, {<<>>}, {"evm"}) /\ [][RulesNext]_vars

\* One EVM contract target, its listeners and the logs of the contract.
SpecContract == Constructed({<<>>}, {<<>>}, {<<>>}, {<<>>}, {"evm"}) /\ [][ContractNext]_vars

\* One RedisNotifier and the notify calls made of it.
SpecRedis == Constructed({<<>>}, {<<>>}, {<<>>}, {<<>>}, {"evm"}) /\ [][RedisNext]_vars

\* A started manager whose adapters signal errors.
SpecReconnect == Constructed({<<>>}, {<<>>}, {<<>>}, {<<>>}, {"evm"}) /\ [][ReconnectNext]_vars

\* An adapter of each chain, the calls on it and one reconnectChain.
SpecAdapterReconnect == Constructed({<<>>}, {<<>>}, {<<>>}, {<<>>}, AdapterKinds) /\ [][AdapterReconnectNext]_vars

\* A new ChainsListener and the start() and stop() calls on it.
SpecLife == Constructed({<<>>}, {<<>>}, {<<>>}, {<<>>}, {"evm"}) /\ [][LifeNext]_vars

\* A pipeline with a ConfirmationFilter and the events of four adapters.
SpecGate == Constructed({<<>>}, {<<>>}, {<<>>}, {<<>>}, {"evm"}) /\ [][GateNext]_vars

(***************************************************************************)
(* Claims about the pipeline, the manager's listener and the counters.     *)
(***************************************************************************)
EnabledFilterIds == {c.id : c \in Range(EnabledOf(filters))}

EnabledNotifierIds == {c.id : c \in Range(EnabledOf(notifiers))}

NothingAfterFilters(e) ==
    /\ exec[e].result = "none"
    /\ exec[e].enriched = {}
    /\ exec[e].category = "none"
    /\ exec[e].invoked = <<>>
    /\ exec[e].notifications = <<>>

\* C1: the enabled filters are applied one at a time in descending priority
\* order (none skipped, none twice, disabled ones never); a filter that returns
\* false is the last one applied, execute returns none, and no enricher,
\* processor or notifier has run for the event.
C1_FiltersDescendingShortCircuit ==
    \A e \in Events :
        LET a == exec[e].applied IN
        /\ \A i \in 1..Len(a) : a[i].id \in EnabledFilterIds
        /\ \A i, j \in 1..Len(a) :
              /\ i < j => FilterPriority(a[i].id) >= FilterPriority(a[j].id)
              /\ i # j => a[i].id # a[j].id
        /\ \A g \in EnabledFilterIds \ {a[i].id : i \in 1..Len(a)} :
              \A i \in 1..Len(a) : FilterPriority(a[i].id) >= FilterPriority(g)
        /\ \A i \in 1..Len(a) :
              a[i].outcome = "false" => i = Len(a) /\ NothingAfterFilters(e)
        /\ exec[e].pc \in {"process", "notify"} \/ exec[e].result = "processed"
              => {a[i].id : i \in 1..Len(a)} = EnabledFilterIds

\* A filter of the highest priority passed, the next one returned false while a
\* lower one was still waiting, and the manager's listener has finished.
C1_Witness ==
    \E e \in Events :
        /\ exec[e].pc = "handled"
        /\ Len(exec[e].applied) = 2
        /\ exec[e].applied[2].outcome = "false"
        /\ exec[e].queue # <<>>

\* C2: when execute returns a ProcessedEvent, every enabled notifier was
\* invoked exactly once and has exactly one entry in notifications, a disabled
\* one none; the entry of a notifier that failed has success = false, that of
\* one that succeeded has success = true.
C2_EveryNotifierOnceOwnOutcome ==
    \A e \in Events :
        exec[e].result = "processed" =>
            LET x == exec[e] IN
            /\ \A n \in EnabledNotifierIds :
                  /\ CountIf(x.invoked, LAMBDA v : v = n) = 1
                  /\ CountIf(x.notifications, LAMBDA v : v.channel = n) = 1
            /\ Range(x.invoked) = EnabledNotifierIds
            /\ Len(x.notifications) = Cardinality(EnabledNotifierIds)
            /\ \A o \in Range(x.outcomes) :
                  \E v \in Range(x.notifications) :
                      v.channel = o.channel /\ v.success = o.ok

\* One notifier failed before another one succeeded, with one switched off.
C2_Witness ==
    \E e \in Events :
        /\ exec[e].result = "processed"
        /\ Len(exec[e].notifications) = 2
        /\ Len(notifiers) = 3
        /\ exec[e].notifications[1].success = FALSE
        /\ exec[e].notifications[2].success = TRUE

\* C3: a filter whose apply throws is the last one applied; execute returns
\* none (it does not raise) and no later filter, enricher, processor or
\* notifier runs, as for a filter that returned false.
C3_ThrowingFilterDrops ==
    \A e \in Events :
        LET a == exec[e].applied IN
        \A i \in 1..Len(a) :
            a[i].outcome = "throws" =>
                /\ i = Len(a)
                /\ NothingAfterFilters(e)
                /\ mgrSignals[e] = <<>>

\* The first filter threw with two more waiting; the listener has finished.
C3_Witness ==
    \E e \in Events :
        /\ exec[e].pc = "handled"
        /\ Len(exec[e].applied) = 1
        /\ exec[e].applied[1].outcome = "throws"
        /\ Len(exec[e].queue) = 2

\* C4: the manager calls execute once per blockchain_event and emits at most
\* one signal for it: event_processed when execute returned a ProcessedEvent,
\* nothing when it returned none.
C4_OneSignalPerEvent ==
    \A e \in Events :
        /\ executeCalls[e] <= 1
        /\ Len(mgrSignals[e]) <= 1
        /\ exec[e].pc = "handled" =>
              mgrSignals[e] = IF exec[e].result = "processed"
                              THEN <<"eventProcessed">> ELSE <<>>

\* execute was called once and returned a ProcessedEvent; an observer of
\* eventProcessed threw, and the listener emitted eventProcessingError as well.
C4_Witness ==
    \E e \in Events :
        /\ executeCalls[e] = 1
        /\ exec[e].result = "processed"
        /\ mgrSignals[e] = <<"eventProcessed", "eventProcessingError">>

SignalCount(name) ==
    LET n[S \in SUBSET Events] ==
            IF S = {} THEN 0
            ELSE LET e == CHOOSE x \in S : TRUE
                 IN  CountIf(mgrSignals[e], LAMBDA v : v = name) + n[S \ {e}]
    IN  n[Events]

StatsBalanced ==
    /\ stats.totalEvents = stats.processedEvents + stats.failedEvents
    /\ stats.processedEvents = SignalCount("eventProcessed")
    /\ stats.failedEvents = SignalCount("eventProcessingError")

StatsNeverDecrease ==
    /\ stats'.totalEvents >= stats.totalEvents
    /\ stats'.processedEvents >= stats.processedEvents
    /\ stats'.failedEvents >= stats.failedEvents

\* C5: total_events = processed_events + failed_events, processed_events is
\* the number of event_processed signals and failed_events the number of
\* event_processing_error signals of the manager, and no counter decreases.
C5_CountersBalanced == []StatsBalanced /\ [][StatsNeverDecrease]_vars

\* Both kinds of signal have been counted.
C5_Witness ==
    /\ stats.processedEvents = 2
    /\ stats.failedEvents = 1
    /\ stats.totalEvents = 3

(***************************************************************************)
(* Claims about the manager.                                               *)
(***************************************************************************)
Last(s) == s[Len(s)]

IsPrefix(s, t) == Len(s) <= Len(t) /\ SubSeq(t, 1, Len(s)) = s

\* C6: start() calls startMonitoring of an adapter only after that adapter's
\* connect completed; a failed connect or startMonitoring is followed by
\* adapterError for that chain; when start() has returned every adapter was
\* driven to adapterStarted or to its own failure, whatever happened to the
\* others; start() never raises.
C6_StartSettlesAll ==
    /\ startTask.result # "raised"
    /\ \A c \in Chains :
          LET d == drive[c] IN
          /\ \A i \in 1..Len(d) :
                /\ d[i] = "startMonitoring" => i > 1 /\ d[i - 1] = "connected"
                /\ d[i] = "connected" => i > 1 /\ d[i - 1] = "connect"
                /\ d[i] \in {"connectFailed", "startMonitoringFailed"} =>
                      i < Len(d) /\ d[i + 1] = "adapterError"
          /\ startTask.result = "returned" =>
                /\ d # <<>>
                /\ d[1] = "connect"
                /\ \/ d = <<"connect", "connected", "startMonitoring", "adapterStarted">>
                   \/ Last(d) = "adapterError"

\* start() has returned; one adapter failed to connect, the other is started.
C6_Witness ==
    /\ startTask.result = "returned"
    /\ \E c, d \in Chains :
          /\ drive[c] = <<"connect", "connectFailed", "adapterError">>
          /\ Last(drive[d]) = "adapterStarted"
          /\ adapter[d].monitoringActive

\* C7: after stop() has returned, and until start() is called again, no
\* adapter is connected or monitoring, no heartbeat and no health sweep timer
\* is live and no reconnect is in progress.
C7_QuietAfterStop ==
    stopReturned =>
        /\ \A c \in Chains :
              /\ ~adapter[c].connected
              /\ ~adapter[c].monitoringActive
              /\ adapter[c].heartbeats = 0
        /\ ~healthCheckTimer
        /\ \A i \in 1..Len(rc) : rc[i].pc \in {"done", "failed"}

\* stop() was called and returned while start() was awaiting the adapters;
\* start() then went on: an adapter is connected with its heartbeat timer
\* live, and the health sweep timer is set.
C7_Witness ==
    /\ stopReturned
    /\ ~isRunning
    /\ ~startTask.active
    /\ healthCheckTimer
    /\ \E c \in Chains : adapter[c].connected /\ adapter[c].heartbeats > 0

\* C8: an adapter whose last successful heartbeat is more than
\* 2 x health_check_interval old when a health sweep runs, with the manager
\* running and auto-reconnect enabled, is found stale by that sweep, which
\* schedules a reconnect for its chain.
C8_SweepFindsStale ==
    \A c \in Chains : sweep[c].overdue => sweep[c].scheduled

\* A sweep ran three heartbeat periods after the last heartbeat that
\* succeeded and scheduled nothing.
C8_Witness ==
    \E c \in Chains :
        /\ sweep[c].overdue
        /\ ~sweep[c].scheduled
        /\ reconnectTimers[c] = 0
        /\ now - lastBeat[c] = 3 * HeartbeatInterval

ReconnectRuns ==
    { <<"disconnect", "sleep", "connect", "connected", "startMonitoring",
        "chainReconnected">>,
      <<"disconnect", "sleep", "connect", "connectFailed",
        "reconnectionFailed", "raised", "autoReconnectFailed">>,
      <<"disconnect", "sleep", "connect", "connected", "startMonitoring",
        "startMonitoringFailed", "reconnectionFailed", "raised",
        "autoReconnectFailed">> }

\* C9: a reconnect runs disconnect, sleep, connect, startMonitoring in this
\* order; after a step that failed no further step runs, reconnectionFailed is
\* emitted and the error is raised to the caller.
C9_ReconnectInOrder ==
    \A i \in 1..Len(rc) :
        /\ \E run \in ReconnectRuns : IsPrefix(rc[i].log, run)
        /\ rc[i].pc \in {"done", "failed"} => rc[i].log \in ReconnectRuns
        /\ rc[i].pc = "failed" <=> \E k \in 1..Len(rc[i].log) : rc[i].log[k] = "raised"

\* A reconnect went through disconnect, sleep and connect, failed in
\* startMonitoring, emitted reconnectionFailed and raised.
C9_Witness ==
    \E i \in 1..Len(rc) :
        /\ rc[i].pc = "failed"
        /\ rc[i].log = <<"disconnect", "sleep", "connect", "connected",
                         "startMonitoring", "startMonitoringFailed",
                         "reconnectionFailed", "raised", "autoReconnectFailed">>

(***************************************************************************)
(* Claims about the notifiers.                                             *)
(***************************************************************************)
\* C10: a notify() call of a notifier with retry budget r and delay
\* retry_delay, neither changed during the call, attempts the operation at
\* most r times; the delay after the failed attempt number k (from 0) is
\* retry_delay x 2^k, so the delays never decrease, and each further attempt
\* follows one delay; no attempt follows a success; when the last attempt
\* made has failed and the call is over, it raised after exactly r attempts.
C10_RetryBudgetBackoff ==
    LET x == retry.call
        r == x.budget
    IN  ~x.reconfigured =>
          /\ Len(x.log) <= r
          /\ \A i \in 1..Len(x.log) :
                x.log[i] = "ok" =>
                    i = Len(x.log) /\ x.pc = "done" /\ x.result = "resolved"
          /\ \A k \in 1..Len(x.delays) : x.delays[k] = x.baseDelay * 2^(k - 1)
          /\ \A k \in 1..(Len(x.delays) - 1) : x.delays[k] <= x.delays[k + 1]
          /\ x.pc = "operation" => Len(x.delays) = Len(x.log)
          /\ x.pc = "sleep" => Len(x.delays) = Len(x.log) /\ Len(x.log) < r
          /\ x.pc = "done" /\ x.log # <<>> /\ x.log[Len(x.log)] = "fail" =>
                x.result = "raised" /\ Len(x.log) = r
          /\ x.pc = "done" /\ x.result = "raised" /\ ~x.connectFailed =>
                Len(x.log) = r /\ \A i \in 1..Len(x.log) : x.log[i] = "fail"

\* A webhook notifier with the default budget 3 and delay 1000 failed three
\* times, slept 1000 and 2000 in between, and raised.
C10_Witness ==
    /\ retry.kind = "webhook_notifier"
    /\ retry.call.pc = "done"
    /\ retry.call.result = "raised"
    /\ ~retry.call.reconfigured
    /\ retry.call.log = <<"fail", "fail", "fail">>
    /\ retry.call.delays = <<DefaultRetryDelay, 2 * DefaultRetryDelay>>
(***************************************************************************)
(* Claims about the notification entries and the registries.               *)
(***************************************************************************)
\* C11: the entry of the webhook notifier, whose notify() fails only when
\* retryOperation has exhausted the budget, has success = false, an error text
\* and retryCount equal to that notifier's budget; the entry of a notifier
\* that succeeded has success = true.
C11_FailedEntryCarriesBudget ==
    \A e \in Events :
        \A i \in 1..Len(exec[e].notifications) :
            LET v == exec[e].notifications[i]
                o == exec[e].outcomes[i]
            IN  /\ o.ok => v.success
                /\ ~o.ok /\ v.channel = "webhook_notifier" =>
                      /\ ~v.success
                      /\ v.error # "none"
                      /\ v.retryCount = FactoryRetryAttempts(v.channel)

\* execute returned with the webhook notifier's entry failed, retryCount 0,
\* and the redis notifier's entry successful.
C11_Witness ==
    \E e \in Events :
        /\ exec[e].result = "processed"
        /\ \E i, j \in 1..Len(exec[e].notifications) :
              /\ exec[e].notifications[i] =
                    [channel |-> "webhook_notifier", success |-> FALSE,
                     error |-> "message", retryCount |-> 0]
              /\ exec[e].notifications[j].channel = "redis_notifier"
              /\ exec[e].notifications[j].success
\* The registry the last add... call wrote to.
RegistryOf(kind) ==
    CASE kind = "filter" -> filters
      [] kind = "enricher" -> enrichers
      [] kind = "processor" -> processors
      [] kind = "notifier" -> notifiers
      [] OTHER -> <<>>

\* C12: an add... call with an id that is already registered raises and leaves
\* the component registered before in place.
C12_DuplicateAddRejected ==
    lastAdd.existed =>
        /\ lastAdd.raised
        /\ MapGet(RegistryOf(lastAdd.kind), lastAdd.id) = lastAdd.before

\* As in createHighValuePipeline: a second AmountFilter was added over the
\* first one without an error, and the first one is gone.
C12_Witness ==
    /\ lastAdd.kind = "filter"
    /\ lastAdd.id = "amount_filter"
    /\ lastAdd.existed
    /\ ~lastAdd.raised
    /\ lastAdd.before = <<NewFilter("amount_filter", TRUE)>>
    /\ MapGet(filters, "amount_filter") = <<NewFilter("amount_filter", FALSE)>>
\* C13: a failing enricher or processor never ends execute: every enabled
\* enricher is called, in order, and the event carries the enrichments of
\* those that succeeded and of no other; the processors are called in order
\* up to the first one that returns, whose ProcessedEvent is used; when none
\* returned or none is enabled the default ProcessedEvent (medium_value,
\* confidence 0.5) is used; and in each case the notifiers are invoked.
C13_EnricherProcessorFailuresPass ==
    \A e \in Events :
        LET x == exec[e]
            en == EnabledOf(enrichers)
            pr == EnabledOf(processors)
        IN  /\ x.pc \in {"process", "notify"} \/ x.result = "processed" =>
                  /\ Len(x.enrichLog) = Len(en)
                  /\ \A i \in 1..Len(en) : x.enrichLog[i].id = en[i].id
                  /\ x.value = SelectSeq([i \in 1..Len(en) |-> en[i].id],
                                         LAMBDA id : \E i \in 1..Len(en) :
                                            x.enrichLog[i].id = id /\ x.enrichLog[i].ok)
            /\ x.pc = "notify" \/ x.result = "processed" =>
                  /\ Len(x.processLog) <= Len(pr)
                  /\ \A i \in 1..Len(x.processLog) :
                        /\ x.processLog[i].id = pr[i].id
                        /\ x.processLog[i].ok => i = Len(x.processLog)
                  /\ IF \E i \in 1..Len(x.processLog) : x.processLog[i].ok
                     THEN x.category = x.processLog[Len(x.processLog)].id
                     ELSE /\ Len(x.processLog) = Len(pr)
                          /\ x.category = "medium_value"
                          /\ x.confidence = "0.5"
            /\ x.result = "processed" =>
                  Range(x.invoked) = EnabledNotifierIds /\ x.category # "none"
            /\ (\E i \in 1..Len(x.enrichLog) : ~x.enrichLog[i].ok) =>
                  x.result # "none"

\* The first enricher failed and the second one ran; both processors failed;
\* execute returned the default ProcessedEvent after invoking the notifier.
C13_Witness ==
    \E e \in Events :
        /\ exec[e].result = "processed"
        /\ exec[e].enrichLog = <<[id |-> "price_enricher", ok |-> FALSE],
                                 [id |-> "label_enricher", ok |-> TRUE]>>
        /\ exec[e].value = <<"label_enricher">>
        /\ exec[e].processLog = <<[id |-> "whale_processor", ok |-> FALSE],
                                  [id |-> "default_processor", ok |-> FALSE]>>
        /\ exec[e].category = "medium_value"
        /\ exec[e].invoked = <<"webhook_notifier">>
(***************************************************************************)
(* Claims about the manager's registry.                                    *)
(***************************************************************************)
\* C14: registerAdapter for a chain type that has an adapter raises and leaves
\* the registry and every adapter's listeners as they were; the registry
\* never holds two adapters of one chain type, and an adapter object carries
\* the manager's listeners exactly while it is registered.
C14_OneAdapterPerChain ==
    /\ lastRegister.existed =>
          /\ lastRegister.raised
          /\ adapters = lastRegister.adaptersBefore
          /\ <<listeners>> = lastRegister.listenersBefore
    /\ ~lastRegister.existed => ~lastRegister.raised
    /\ \A i, j \in 1..Len(adapters) : adapters[i].id = adapters[j].id => i = j
    /\ \A i \in 1..Len(adapters) : ChainTypeOf(adapters[i].instance) = adapters[i].id
    /\ \A a \in AdapterObjects :
          listeners[a] = IF HasAdapterByObject(adapters, a) THEN 1 ELSE 0

\* A second ethereum adapter was rejected while the first one and a bsc
\* adapter stay registered.
C14_Witness ==
    /\ lastRegister.instance = "eth2"
    /\ lastRegister.raised
    /\ Len(adapters) = 2
    /\ MapGet(adapters, "ethereum") = <<[id |-> "ethereum", instance |-> "eth1"]>>
    /\ listeners["eth1"] = 1
    /\ listeners["eth2"] = 0

(***************************************************************************)
(* Claims about one adapter.                                               *)
(***************************************************************************)
\* C15: addMonitoringTarget with an address that fails validateAddress or
\* with an empty eventTypes list raises and leaves the target map and the
\* subscriptions as they were; every target an adapter holds has an address
\* its validateAddress accepts and at least one event type.
C15_InvalidTargetRejected ==
    /\ (/\ lastCall.op = "addMonitoringTarget"
        /\ \/ ~ValidateAddress(ad.kind, lastCall.arg[1].address)
           \/ Len(lastCall.arg[1].eventTypes) = 0)
          => /\ lastCall.raised
             /\ ad.targets = lastCall.pre.targets
             /\ ad.subs = lastCall.pre.subs
    /\ \A t \in ad.targets :
          ValidateAddress(ad.kind, t.address) /\ Len(t.eventTypes) >= 1

\* A monitoring adapter that holds a subscribed target has just refused a
\* target whose event types are fine and whose address is not.
C15_Witness ==
    /\ lastCall.op = "addMonitoringTarget"
    /\ lastCall.raised
    /\ ~ValidateAddress(ad.kind, lastCall.arg[1].address)
    /\ Len(lastCall.arg[1].eventTypes) > 0
    /\ ad.monitoringActive
    /\ ad.targets # {}
    /\ ad.subs # {}

(***************************************************************************)
(* Claims about the facade's add calls.                                    *)
(***************************************************************************)
AddressRejectedOn ==
    IF lastFacade.op = "none" THEN {}
    ELSE {c \in lastFacade.chains \cap FacadeChains :
            ~ValidateAddress(ChainAdapterKind(c), lastFacade.target[1].address)}

\* C16: an addWalletAddress, addTokenContract or addEnhancedTarget call whose
\* address a chain adapter's validation rejects ends in an error for its
\* caller and has no side effect: that chain's targets are as before and the
\* facade emits no walletAdded, contractAdded or enhancedTargetAdded.
C16_RejectedAddReported ==
    AddressRejectedOn # {} =>
        /\ lastFacade.raised
        /\ lastFacade.emitted = "none"
        /\ \A c \in AddressRejectedOn : chainTargets[c] = lastFacade.pre[c]

\* addWalletAddress with a 40-digit hex address and no chain list: sui
\* rejected it, ethereum and trx took it, the call returned normally and
\* walletAdded was emitted.
C16_Witness ==
    /\ lastFacade.op = "addWalletAddress"
    /\ AddressRejectedOn = {"sui"}
    /\ lastFacade.targetAdded = {"ethereum", "trx"}
    /\ ~lastFacade.raised
    /\ lastFacade.emitted = "walletAdded"
    /\ chainTargets["sui"] = lastFacade.pre["sui"]

(***************************************************************************)
(* Claims about an adapter's lifecycle.                                    *)
(***************************************************************************)
\* Target t of adapter a is being monitored: a polling adapter has a live
\* poll timer, a listening adapter holds a subscription for the address.
Monitored(a, t) ==
    IF a.kind \in PollingKinds THEN a.polls > 0 ELSE t.address \in a.subs

\* C17: startMonitoring called on an adapter that is not connected does not
\* activate monitoring and creates no subscription, listener or poll timer;
\* called on a connected adapter it leaves monitoring active with a
\* subscription or a poll for every registered target.
C17_StartMonitoringNeedsConnection ==
    lastCall.op = "startMonitoring" =>
        /\ ~lastCall.pre.connected =>
              /\ ad.monitoringActive = lastCall.pre.monitoringActive
              /\ ad.subs = lastCall.pre.subs
              /\ ad.listening = lastCall.pre.listening
              /\ ad.polls = lastCall.pre.polls
              /\ ad.pollTimer = lastCall.pre.pollTimer
        /\ lastCall.pre.connected =>
              /\ ad.monitoringActive
              /\ \A t \in ad.targets : Monitored(ad, t)

\* The polling Sui adapter after connect, startMonitoring, disconnect,
\* connect: startMonitoring returned at once, and a registered target has no
\* poll timer behind it.
C17_Witness ==
    /\ ad.kind = "sui_polling"
    /\ lastCall.op = "startMonitoring"
    /\ ~lastCall.raised
    /\ lastCall.pre.connected
    /\ lastCall.pre.monitoringActive
    /\ ad.targets # {}
    /\ ad.polls = 0
    /\ ~ad.pollTimer

\* C18: connect() and disconnect() are idempotent: connect() on a connected
\* adapter and disconnect() on a disconnected one leave the adapter as the
\* first call left it, exactly one heartbeat timer is live after a connect()
\* however many there were, and none after a disconnect().
C18_ConnectDisconnectIdempotent ==
    /\ (lastCall.op = "connect" /\ ~lastCall.raised) =>
          /\ ad.heartbeats = 1
          /\ lastCall.pre.connected => ad = lastCall.pre
    /\ lastCall.op = "disconnect" =>
          /\ ad.heartbeats = 0
          /\ (/\ ~lastCall.pre.connected
              /\ ~lastCall.pre.handle
              /\ lastCall.pre.heartbeats = 0
              /\ lastCall.pre.polls = 0) => ad = lastCall.pre

\* connect() succeeded on an adapter that was connected with one heartbeat
\* timer: two heartbeat timers are live now.
C18_Witness ==
    /\ lastCall.op = "connect"
    /\ ~lastCall.raised
    /\ lastCall.pre.connected
    /\ lastCall.pre.heartbeats = 1
    /\ ad.heartbeats = 2

\* C19: disconnect() cancels the heartbeat timer and the poll timer before
\* it releases the connection handle; once it has returned the adapter is
\* not connected, holds no handle and has no live timer, so no timer
\* callback runs on an adapter whose handle was released.
C19_DisconnectStopsTimersFirst ==
    /\ lastCall.op = "disconnect" =>
          /\ \E r \in 1..Len(lastCall.steps) :
                /\ lastCall.steps[r] = "release"
                /\ \A i \in 1..Len(lastCall.steps) :
                      lastCall.steps[i] \in {"stopHeartbeat", "stopPolling"} => i < r
          /\ ~ad.connected
          /\ ~ad.handle
          /\ ad.heartbeats = 0
          /\ ad.polls = 0
    /\ lastCall.op \in {"heartbeat", "poll"} => lastCall.pre.handle

\* The subscription-timer Sui adapter after connect, startMonitoring,
\* disconnect: disconnect() returned having emitted "error", the adapter is
\* still connected, holds its client, and its subscription timer is live.
C19_Witness ==
    /\ ad.kind = "sui"
    /\ lastCall.op = "disconnect"
    /\ lastCall.pre.connected
    /\ lastCall.pre.monitoringActive
    /\ lastCall.emitted = "error"
    /\ ad.connected
    /\ ad.handle
    /\ ad.heartbeats = 0
    /\ ad.polls = 1

\* C20: a heartbeat whose tip fetch fails makes the adapter emit "error" and
\* changes nothing else: connected, monitoringActive, the subscriptions and
\* the timers are as before the heartbeat, and the heartbeat timer is still
\* live for the next round.
C20_FailedHeartbeatKeepsAdapter ==
    (/\ lastCall.op = "heartbeat"
     /\ lastCall.steps = <<"fetch">>
     /\ lastCall.raised) =>
        /\ lastCall.emitted = "error"
        /\ ad.connected = lastCall.pre.connected
        /\ ad.monitoringActive = lastCall.pre.monitoringActive
        /\ ad.subs = lastCall.pre.subs
        /\ ad.listening = lastCall.pre.listening
        /\ ad.heartbeats = lastCall.pre.heartbeats
        /\ ad.polls = lastCall.pre.polls
        /\ ad.heartbeats >= 1

\* A connected, monitoring Sui adapter whose heartbeat failed: it is no
\* longer connected and emitted connectionStatus, not "error".
C20_Witness ==
    /\ ad.kind \in SuiKinds
    /\ lastCall.op = "heartbeat"
    /\ lastCall.steps = <<"fetch">>
    /\ lastCall.raised
    /\ lastCall.pre.connected
    /\ lastCall.pre.monitoringActive
    /\ ~ad.connected
    /\ lastCall.emitted = "connectionStatus"
    /\ ad.heartbeats = 1

(***************************************************************************)
(* Claims about the adapters' retry wrapper.                               *)
(***************************************************************************)
\* C21: the wrapper retries a failing operation at most maxRetryAttempts
\* times, sleeps min(1000 * 2^attempt, 30000) ms before each retry, returns
\* the value of the first attempt that succeeds and makes no attempt after
\* it, and throws, with the context string in the error, only when the last
\* permitted attempt has failed.
C21_WrapperRetriesThenRaises ==
    /\ Len(wrapper.outcomes) <= wrapper.max + 1
    /\ Len(wrapper.sleeps) <= wrapper.max
    /\ \A i \in 1..Len(wrapper.sleeps) :
          /\ wrapper.outcomes[i] = <<"failed">>
          /\ wrapper.sleeps[i] = IF i - 1 >= 5 THEN 30000 ELSE 1000 * Pow(2, i - 1)
    /\ \A i \in 1..Len(wrapper.outcomes) :
          wrapper.outcomes[i][1] = "ok" =>
              /\ i = Len(wrapper.outcomes)
              /\ wrapper.pc = "returned"
              /\ wrapper.result = <<wrapper.outcomes[i][2]>>
    /\ wrapper.pc = "returned" =>
          /\ wrapper.outcomes[Len(wrapper.outcomes)][1] = "ok"
          /\ Len(wrapper.sleeps) = Len(wrapper.outcomes) - 1
          /\ wrapper.error = <<>>
    /\ wrapper.pc = "raised" <=>
          /\ Len(wrapper.outcomes) = wrapper.max + 1
          /\ \A i \in 1..Len(wrapper.outcomes) : wrapper.outcomes[i] = <<"failed">>
    /\ wrapper.pc = "raised" =>
          /\ wrapper.error # <<>>
          /\ wrapper.error[1].context = wrapper.context
          /\ wrapper.result = <<>>

\* Six failures, the sixth retry delayed by the cap, and a value from the
\* seventh attempt.
C21_Witness ==
    /\ wrapper.pc = "returned"
    /\ wrapper.max = 6
    /\ Len(wrapper.outcomes) = 7
    /\ wrapper.sleeps = <<1000, 2000, 4000, 8000, 16000, 30000>>
    /\ wrapper.result = <<"v2">>

(***************************************************************************)
(* Claims about the events the adapters emit.                              *)
(***************************************************************************)
\* C22: every emitted event has confirmationCount >= 0, however block
\* notifications and log notifications interleave.
C22_ConfirmationsNeverNegative ==
    \A e \in emitted : e.confirmationCount >= 0

\* A log of block 2 was parsed while currentBlockNumber was still 0 or 1:
\* the event went out unconfirmed with a negative count.
C22_Witness ==
    \E e \in emitted :
        /\ e.chainType = "ethereum"
        /\ e.blockNumber = 2
        /\ e.confirmationCount < 0
        /\ ~e.confirmed

\* C23: two emitted events built from two distinct observations (two logs,
\* two log lines) never carry the same id.
C23_IdsUniquePerObservation ==
    \A e1, e2 \in emitted :
        e1.observation # e2.observation => e1.id # e2.id

\* The two logs of transaction tx1 went through the native-transfer
\* listener, and the two events have one id.
C23_Witness ==
    \E e1, e2 \in emitted :
        /\ e1.handler = "native" /\ e2.handler = "native"
        /\ e1.observation = <<"tx1", 0>>
        /\ e2.observation = <<"tx1", 1>>
        /\ e1.id = <<"ethereum", "tx1">>
        /\ e2.id = e1.id

(***************************************************************************)
(* Claims about the Solana adapter.                                        *)
(***************************************************************************)
\* C24: once removeMonitoringTarget(address) has completed, the
\* subscription map holds no entry of the address and no subscription that
\* was created for the address is live.
C24_RemoveLeavesNoSubscription ==
    lastSol.op = "removeMonitoringTarget" =>
        /\ \A e \in sol.subscriptions : e.key[2] # lastSol.address
        /\ \A l \in sol.live : l.key[2] # lastSol.address

\* The target was added twice while monitoring was active; after its
\* removal the map has no entry of it, and the first subscription lives on.
C24_Witness ==
    /\ lastSol = SolanaCall("removeMonitoringTarget", "wallet1")
    /\ sol.targets["wallet1"] = <<>>
    /\ \A e \in sol.subscriptions : e.key[2] # "wallet1"
    /\ \E l \in sol.live : l.key = <<"account", "wallet1">>

\* C25: a change notification of the monitored mint emits token_mint
\* exactly when the fetched supply s1 exceeds the last known supply s0, the
\* amount is format(s1 - s0, decimals), and s1 is the cached supply
\* afterwards.
C25_MintEmittedIffSupplyGrew ==
    lastSol.op = "mintAccountChange" =>
        /\ (lastSol.emitted # <<>>) <=> (lastSol.s1[1] > lastSol.s0[1])
        /\ lastSol.emitted # <<>> =>
               lastSol.emitted[1] =
                   FormatTokenAmount(lastSol.s1[1] - lastSol.s0[1],
                                     sol.decimals[1])
        /\ sol.cache = lastSol.s1

\* The first notification after the setup: the supply went from 0 to 150
\* and nothing was emitted.
C25_Witness ==
    /\ lastSol.op = "mintAccountChange"
    /\ lastSol.s0 = <<0>>
    /\ lastSol.s1 = <<150>>
    /\ lastSol.emitted = <<>>

(***************************************************************************)
(* Claims about the polling adapters.                                      *)
(***************************************************************************)
\* C26: the Sui adapter never emits an event whose key processedEvents
\* holds, whether the event comes back from a second filter, from a later
\* poll or from an overlapping tick, and a finished poll leaves the set at
\* or under its ceiling.
C26_SuiSuppressesDuplicates ==
    /\ \A emission \in suiEmits : ~emission.held
    /\ suiPoll.sizeAfterPoll # <<>> =>
           suiPoll.sizeAfterPoll[1] <= ProcessedEventsCeiling

\* Two overlapping ticks both passed the has() test for e1; the second
\* emitted e1 after the first had added its key.
C26_Witness ==
    \E first, second \in suiEmits :
        /\ first.event = "e1" /\ second.event = "e1"
        /\ first.tick = 1 /\ second.tick = 2
        /\ ~first.held
        /\ second.held

\* C27: a transaction or contract event that the remote API returns on
\* several poll ticks is emitted by one tick only.
C27_PollingEmitsOnce ==
    /\ \A e1, e2 \in btcEmits : e1.event.tx = e2.event.tx => e1.poll = e2.poll
    /\ \A e1, e2 \in tronEmits : e1.event.tx = e2.event.tx => e1.poll = e2.poll

\* Both adapters emitted the same item on their first and on their second
\* tick.
C27_Witness ==
    /\ \E e1, e2 \in btcEmits :
           e1.event.tx = "incoming" /\ e2.event.tx = "incoming"
           /\ e1.poll = 1 /\ e2.poll = 2
    /\ \E e1, e2 \in tronEmits :
           e1.event.tx = "ev1" /\ e2.event.tx = "ev1"
           /\ e1.poll = 1 /\ e2.poll = 2

\* The sums the statement speaks of: O, the outputs that pay the address,
\* and I, the inputs that spend from it.
RECURSIVE SumFor(_, _)
SumFor(entries, address) ==
    IF entries = <<>> THEN 0
    ELSE (IF Head(entries).address = address THEN Head(entries).value ELSE 0)
         + SumFor(Tail(entries), address)

NetToTarget(txid) ==
    SumFor(BtcTransactions[txid].vout, BtcTarget)
        - SumFor(BtcTransactions[txid].vin, BtcTarget)

\* C28: the Bitcoin event of a transaction has amount |O - I|, and
\* isIncoming is true exactly when O - I is positive.
C28_BitcoinNetAmountAndDirection ==
    \A e \in btcEmits :
        /\ e.event.amount = MathAbs(NetToTarget(e.event.tx))
        /\ e.event.isIncoming <=> (NetToTarget(e.event.tx) > 0)

\* The address put in 1 and got 5 out: amount 4, and isIncoming false.
C28_Witness ==
    \E e \in btcEmits :
        /\ e.event.tx = "joint"
        /\ NetToTarget("joint") = 4
        /\ e.event.amount = 4
        /\ ~e.event.isIncoming

(***************************************************************************)
(* Claims about the target configuration resolver.                         *)
(***************************************************************************)
\* The view the statement describes for a target: every field the target
\* sets, the global default for every other field.
OverlaidView(target) ==
    [min_amount |-> IF target.filters # <<>>
                    THEN Coalesce(target.filters[1].minAmount,
                                  GlobalConfig.min_amount)
                    ELSE GlobalConfig.min_amount,
     batch_size |-> IF target.filters # <<>>
                    THEN Coalesce(target.filters[1].batchSize,
                                  GlobalConfig.batch_size)
                    ELSE GlobalConfig.batch_size,
     channels   |-> Coalesce(target.notificationChannels,
                             GlobalConfig.channels),
     priority   |-> Coalesce(target.priority, GlobalConfig.priority)]

\* C29: getTargetConfig(address, chain) returns the overlaid view of the
\* target registered for the address, and the global view when there is no
\* such target or the target's chain list leaves the requested chain out.
C29_ResolverOverlaysTarget ==
    lastConfig.op = "getTargetConfig" =>
        LET entry == enhancedTargets[ToLowerCase(lastConfig.address)]
            excluded == /\ entry # <<>>
                        /\ lastConfig.chain # <<>>
                        /\ entry[1].chains # <<>>
                        /\ lastConfig.chain[1] \notin entry[1].chains[1]
        IN  lastConfig.view[1] =
                IF entry = <<>> \/ excluded
                THEN GlobalConfig
                ELSE OverlaidView(entry[1])

\* The target sets priority low and its channels but no filters, and the
\* resolver answered with the global view.
C29_Witness ==
    /\ lastConfig.op = "getTargetConfig"
    /\ lastConfig.address = "0xaa"
    /\ enhancedTargets["0xaa"] # <<>>
    /\ enhancedTargets["0xaa"][1].filters = <<>>
    /\ enhancedTargets["0xaa"][1].priority = <<"low">>
    /\ lastConfig.view[1] = GlobalConfig

\* C30: after the facade's addEnhancedTarget(t) and after its
\* updateEnhancedTarget(id, patch) the resolver answers for the address as
\* it does with the given target registered; after removeEnhancedTarget(id)
\* it answers with the global view; and update and remove do not throw for
\* an id that was added through the facade.
C30_FacadeReachesResolver ==
    /\ lastConfig.op \in {"addEnhancedTarget", "updateEnhancedTarget"}
       /\ ~lastConfig.raised =>
           \A c \in ResolverChainInputs :
               GetTargetConfig(enhancedTargets, lastConfig.address, c) =
                   GetTargetConfig(
                       [enhancedTargets EXCEPT
                           ![ToLowerCase(lastConfig.address)] =
                               lastConfig.target],
                       lastConfig.address, c)
    /\ lastConfig.op = "removeEnhancedTarget" /\ ~lastConfig.raised =>
           \A c \in ResolverChainInputs :
               GetTargetConfig(enhancedTargets, lastConfig.address, c) =
                   GlobalConfig
    /\ lastConfig.op \in {"removeEnhancedTarget", "updateEnhancedTarget"}
       /\ lastConfig.raised =>
           lastConfig.id \notin facadeAdded

\* Target t1 was added through the facade alone: the registry has no entry
\* for its address and the resolver answers with the global view.
C30_Witness ==
    /\ lastConfig.op = "addEnhancedTarget"
    /\ lastConfig.id = "t1"
    /\ enhancedTargets["0xaa"] = <<>>
    /\ GetTargetConfig(enhancedTargets, "0xAA", <<>>) = GlobalConfig
    /\ \E x \in chainTargets["ethereum"] : x.address.id = "0xAA"

(***************************************************************************)
(* Claims about the custom-rules filter.                                   *)
(***************************************************************************)
\* A rule as the statement reads it: metadata.k is the value under key k
\* of the event's metadata, every other field is the event's own.
StatedFieldValue(event, field) ==
    IF Len(field) = 2 /\ field[1] = "metadata" THEN event.metadata[field[2]]
    ELSE GetFieldValue(event, field)

StatedRulePasses(event, rule) ==
    LET fieldValue == StatedFieldValue(event, rule.field)
    IN  IF fieldValue = JsUndefined THEN TRUE
        ELSE OperatorHolds(rule.operator, fieldValue, rule.value)

\* C31: the filter passes an event of a target with rules exactly when
\* every rule passes, a metadata.k rule being tested against the event's
\* metadata.k.
C31_CustomRulesAllMustPass ==
    ruleCall.called /\ ruleCall.customRules # <<>>
    /\ ruleCall.event[1].tokenAddress # JsUndefined =>
        (ruleCall.passed <=>
            \A i \in DOMAIN ruleCall.customRules[1] :
                StatedRulePasses(ruleCall.event[1], ruleCall.customRules[1][i]))

\* The only rule is metadata.k equals "v", the event's metadata.k is "w",
\* and the filter let the event pass.
C31_Witness ==
    /\ ruleCall.called
    /\ ruleCall.customRules # <<>>
    /\ Len(ruleCall.customRules[1]) = 1
    /\ ruleCall.customRules[1][1].field = <<"metadata", "k">>
    /\ ruleCall.event[1].tokenAddress # JsUndefined
    /\ ruleCall.event[1].metadata.k = JsString(<<"w">>)
    /\ ruleCall.passed

(***************************************************************************)
(* Claims about the EVM listeners of a contract target.                    *)
(***************************************************************************)
\* C32: for a contract target monitored for token_mint, a log of the
\* contract yields a token_mint event exactly when it is a Transfer from
\* the zero address or its topic0 is a known mint signature, and such a
\* log yields exactly one emitted event.
C32_MintLogsEmitOnce ==
    "token_mint" \in contractTarget.eventTypes =>
        \A log \in ContractLogs :
            log.id \in contractTarget.delivered =>
                LET isMint == \/ log.topic = "Transfer" /\ log.fromZero
                              \/ log.topic \in Erc20MintTopics
                    events == {e \in contractEmits : e.log = log.id}
                IN  /\ (\E e \in events : e.eventType = "token_mint") <=> isMint
                    /\ isMint => Cardinality(events) = 1

\* The target is monitored for token_mint and transfer: the Mint log gave
\* no event, and the Transfer from the zero address gave two.
C32_Witness ==
    /\ contractTarget.eventTypes = {"transfer", "token_mint"}
    /\ {"mint", "mintTransfer"} \subseteq contractTarget.delivered
    /\ \A e \in contractEmits : e.log # "mint"
    /\ Cardinality({e \in contractEmits : e.log = "mintTransfer"}) = 2

(***************************************************************************)
(* Claims about the Redis notifier.                                        *)
(***************************************************************************)
\* C33: two notify calls on a notifier without a ready client establish at
\* most one client, neither closes a client the other is connecting or
\* publishing on, and both publishes succeed.
C33_LazyConnectionGuarded ==
    /\ Len(redis.clients) <= 1
    /\ ~redis.closedInUse
    /\ \A c \in RedisCalls : redis.calls[c].pc # "failed"

\* The second call quit the client the first one was connecting and made
\* its own.
C33_Witness ==
    /\ Len(redis.clients) = 2
    /\ redis.clients[1] = "closed"
    /\ redis.closedInUse
    /\ redis.calls[1].on = 1
    /\ redis.calls[2].on = 2

(***************************************************************************)
(* Claims about the order of the manager's signals.                        *)
(***************************************************************************)
\* The place of event e in a log, 0 when the log does not hold it.
PlaceIn(log, e) ==
    IF \E i \in 1..Len(log) : log[i] = e
    THEN CHOOSE i \in 1..Len(log) : log[i] = e
    ELSE 0

\* C34: when the adapter emitted e1 before e2 and the manager emitted
\* eventProcessed for e2, then e1 was dropped by the filters or its
\* eventProcessed came before that of e2.
C34_AdapterOrderPreserved ==
    \A e1, e2 \in Events :
        (/\ PlaceIn(emitLog, e1) # 0
         /\ PlaceIn(emitLog, e1) < PlaceIn(emitLog, e2)
         /\ PlaceIn(processedLog, e2) # 0
         /\ exec[e1].result # "none")
        => /\ PlaceIn(processedLog, e1) # 0
           /\ PlaceIn(processedLog, e1) < PlaceIn(processedLog, e2)

\* Both events passed the filters and their notifications were started in
\* the order of emission; the later one's notifiers settled first.
C34_Witness ==
    /\ emitLog = <<"ev1", "ev2">>
    /\ processedLog = <<"ev2">>
    /\ exec["ev1"].pc = "notify"
    /\ exec["ev1"].pending # {}
    /\ exec["ev2"].notifications # <<>>

(***************************************************************************)
(* Claims about automatic reconnection.                                    *)
(***************************************************************************)
\* C35: per chain, the timers of scheduleReconnection that are pending and
\* the reconnectChain calls in progress are at most one together.
C35_OneReconnectPerChain ==
    \A c \in Chains :
        reconnectTimers[c] + Cardinality(ReconnectsInProgress(c)) <= 1

\* Two error signals of one adapter: both timers fired, and two
\* reconnectChain calls of the chain are in progress side by side.
C35_Witness ==
    \E c \in Chains :
        \E i, j \in ReconnectsInProgress(c) :
            /\ i < j
            /\ rc[i].pc = "getNetwork"
            /\ rc[j].pc = "sleep"

(***************************************************************************)
(* Claims about the adapter's flags and what a reconnection leaves.        *)
(***************************************************************************)
\* C36: once reconnectChain completed without error the adapter is
\* connected and monitoring, and every target it held before the
\* reconnection has a live subscription or exactly one poll timer.
C36_ReconnectResumesMonitoring ==
    reconn.pc = "done" =>
        /\ ad.connected
        /\ ad.monitoringActive
        /\ \A t \in reconn.before : TargetIsWatched(ad, t.address)

\* The polling Sui adapter was monitoring a target; the reconnection ended
\* without error and no poll timer runs.
C36_Witness ==
    /\ reconn.pc = "done"
    /\ ad.kind = "sui_polling"
    /\ reconn.before # {}
    /\ ad.connected
    /\ ad.monitoringActive
    /\ ad.polls = 0

\* C37: on every adapter, monitoringActive implies connected.
C37_MonitoringImpliesConnected == ad.monitoringActive => ad.connected

\* A Sui heartbeat failed on a monitoring adapter: connected is cleared and
\* monitoringActive stays.
C37_Witness ==
    /\ ad.kind \in SuiKinds
    /\ lastCall.op = "heartbeat"
    /\ lastCall.raised
    /\ lastCall.pre.connected
    /\ ad.monitoringActive
    /\ ~ad.connected

(***************************************************************************)
(* Claims about the facade's life cycle.                                   *)
(***************************************************************************)
\* C38: whenever no start() or stop() of the facade is in progress, the
\* facade's isRunning equals the manager's, so that a running manager can
\* be stopped through the facade.
C38_FacadeFlagFollowsManager ==
    FacadeQuiet => (life.facadeRunning <=> life.managerRunning)

\* stop() was called while start() awaited its targets: both returned, the
\* manager runs with its health timer, and the facade's flag is clear.
C38_Witness ==
    /\ FacadeQuiet
    /\ life.lastStart = "returned"
    /\ life.lastStop = "returned"
    /\ life.managerRunning
    /\ life.healthCheckTimer
    /\ ~life.facadeRunning

(***************************************************************************)
(* Claims about failing stages and the counters.                           *)
(***************************************************************************)
\* Events whose execute() returned a ProcessedEvent and whose listener ended.
ProcessedAndHandled ==
    {e \in Events : exec[e].pc = "handled" /\ exec[e].result = "processed"}

C40_FixedConfirmationCountRejected ==
    (gate.executed /\ gate.event.chainType \in {"solana", "sui", "tron"}) =>
        /\ gate.event.confirmationCount = 1
        /\ gate.required > 1 => (gate.result = "none" /\ ~gate.notified)

\* A Tron event of a block that is three blocks deep was rejected by a
\* filter requiring 2.
C40_Witness ==
    /\ gate.executed
    /\ gate.event.chainType = "tron"
    /\ gate.seenAt - gate.event.blockNumber = 3
    /\ gate.required = 2
    /\ gate.event.confirmationCount = 1
    /\ gate.result = "none"
    /\ ~gate.notified
====
